---- MODULE Spec2Model ----
(***************************************************************************)
(* SafeClaw command understanding: the parser (core/parser.py), the chain  *)
(* executor (core/engine.py) and the language packs (core/i18n.py).        *)
(*                                                                         *)
(* Text is a sequence of one-character strings, so that strip(), lower(),  *)
(* the chain regexes and the fuzzy ratios are computed character by        *)
(* character, as the Python code computes them.                            *)
(***************************************************************************)
EXTENDS Integers, Sequences, FiniteSets, TLC

VARIABLES
    pc,          \* position of the operation in progress
    text,        \* the text handed to is_chain / _split_chain / handle_message
    detected,    \* result of _detect_chain(text): chain type of the first rule found, or None
    segments,    \* result of _split_chain(text)[0]
    split_type,  \* result of _split_chain(text)[1]
    intents,     \* CommandParser.intents, in insertion order
    has_memory,  \* CommandParser.memory is configured
    learned_patterns_cache,  \* CommandParser._learned_patterns_cache: user -> list
    store,       \* the persistence collaborator's learned patterns: user -> list
    learning,    \* learn_correction calls suspended at `await memory.learn_pattern`
    loading,     \* load_user_patterns calls suspended at `await memory.get_user_patterns`
    n_calls,     \* number of learn_correction and load_user_patterns calls made
    parsed,      \* the parse call just made and its result
    corrected,   \* per user, normalized phrase -> intent of the last completed correction
    actions,     \* SafeClaw.actions: the intents that have a registered handler
    chain,       \* the CommandChain _handle_chain executes
    idx,         \* 1-based position of the chain loop (i + 1 of the code)
    results,     \* results of _handle_chain
    previous_output,  \* previous_output of _handle_chain
    call,        \* the handler invocation in progress: stage, action and params
    events,      \* history: what happened to each stage, in order
    stored,      \* Memory.store_message calls made: the raw texts stored
    response,    \* the string handle_message returned
    loaded_languages,  \* the language codes load_language has merged, in load order
    op,          \* the catalog operation made last
    requested,   \* the language codes load_language was called with, in call order
    plugins,     \* PluginLoader.plugins: the names of the loaded plugins
    registered,  \* the IntentPattern register_intent was called with last
    shell,       \* the ShellAction: its settings, and the command, processes and result of execute
    handlers,    \* WebhookServer.handlers: name -> WebhookHandler
    event_queue, \* WebhookServer.event_queue, oldest event first
    receiving,   \* receive_webhook calls suspended at `await request.body()`
    reply        \* the HTTP status the webhook server answered last

chainVars == <<text, detected, segments, split_type>>
parserVars == <<intents, has_memory, learned_patterns_cache, store, learning, loading, n_calls, parsed, corrected>>
engineVars == <<actions, chain, idx, results, previous_output, call, events, stored, response>>
catalogVars == <<loaded_languages, op, requested, plugins, registered>>
shellVars == <<shell>>
webhookVars == <<handlers, event_queue, receiving, reply>>
vars == <<pc, chainVars, parserVars, engineVars, catalogVars, shellVars, webhookVars>>

None == "None"

(***************************************************************************)
(* Characters and strings                                                  *)
(***************************************************************************)
SP == " "

UpperLetters == <<"A","B","C","D","E","F","G","H","I","J","K","L","M",
                  "N","O","P","Q","R","S","T","U","V","W","X","Y","Z">>
LowerLetters == <<"a","b","c","d","e","f","g","h","i","j","k","l","m",
                  "n","o","p","q","r","s","t","u","v","w","x","y","z">>

\* str.lower() on one character
LowerChar(c) ==
    IF \E i \in DOMAIN UpperLetters : UpperLetters[i] = c
    THEN LowerLetters[CHOOSE i \in DOMAIN UpperLetters : UpperLetters[i] = c]
    ELSE c

\* str.lower()
Lower(s) == [i \in DOMAIN s |-> LowerChar(s[i])]

\* str.isspace() / regex \s on one character
IsSpace(c) == c = SP

\* str.strip(): drop leading and trailing whitespace
RECURSIVE LStrip(_)
LStrip(s) == IF s # <<>> /\ IsSpace(Head(s)) THEN LStrip(Tail(s)) ELSE s

RECURSIVE RStrip(_)
RStrip(s) ==
    IF s # <<>> /\ IsSpace(s[Len(s)]) THEN RStrip(SubSeq(s, 1, Len(s) - 1)) ELSE s

Strip(s) == RStrip(LStrip(s))

\* concatenation of a sequence of strings
RECURSIVE Flatten(_)
Flatten(ss) == IF ss = <<>> THEN <<>> ELSE Head(ss) \o Flatten(Tail(ss))

\* literal w occurs in s at position p, case-insensitively (re.IGNORECASE)
LitAtCI(w, s, p) ==
    /\ p >= 1
    /\ p + Len(w) - 1 <= Len(s)
    /\ \A k \in 1..Len(w) : LowerChar(s[p + k - 1]) = LowerChar(w[k])

\* first position >= p of s that is not whitespace (Len(s)+1 if none): greedy \s*
RECURSIVE SkipSpace(_, _)
SkipSpace(s, p) ==
    IF p <= Len(s) /\ IsSpace(s[p]) THEN SkipSpace(s, p + 1) ELSE p

(***************************************************************************)
(* CHAIN_PATTERNS, parser.py:143-149.  Every rule has the shape            *)
(*   \s{lead,}  word1 \s+ word2 ... \s{trail,}                             *)
(* with lead, trail the minimal number of whitespace characters (0 for     *)
(* \s*, 1 for \s+).                                                        *)
(***************************************************************************)
CHAIN_PATTERNS == <<
    [lead |-> 0, words |-> << <<"|">> >>,                          trail |-> 0, type |-> "pipe"],
    [lead |-> 0, words |-> << <<"-", ">">> >>,                     trail |-> 0, type |-> "pipe"],
    [lead |-> 1, words |-> << <<"a","n","d">>, <<"t","h","e","n">> >>, trail |-> 1, type |-> "sequence"],
    [lead |-> 1, words |-> << <<"t","h","e","n">> >>,              trail |-> 1, type |-> "sequence"],
    [lead |-> 0, words |-> << <<";">> >>,                          trail |-> 0, type |-> "sequence"] >>

\* The words of a rule from position p on, separated by \s+; the position after
\* the last word, or 0 when they do not match.
RECURSIVE MatchWords(_, _, _)
MatchWords(ws, s, p) ==
    IF ws = <<>> THEN p
    ELSE IF ~LitAtCI(Head(ws), s, p) THEN 0
    ELSE LET q == p + Len(Head(ws)) IN
         IF Tail(ws) = <<>> THEN q
         ELSE LET r == SkipSpace(s, q) IN
              IF r = q THEN 0 ELSE MatchWords(Tail(ws), s, r)

\* re.match of a chain rule at position p: the end position (exclusive) of the
\* greedy match, or 0.  Whitespace never starts a word, so the greedy
\* whitespace runs need no backtracking.
MatchAt(pat, s, p) ==
    LET a == SkipSpace(s, p)
        b == IF a - p >= pat.lead THEN MatchWords(pat.words, s, a) ELSE 0
        c == IF b = 0 THEN 0 ELSE SkipSpace(s, b)
    IN  IF b # 0 /\ c - b >= pat.trail THEN c ELSE 0

\* re.search from position p: <<start, end>> of the leftmost match, or <<0, 0>>
RECURSIVE SearchFrom(_, _, _)
SearchFrom(pat, s, p) ==
    IF p > Len(s) THEN <<0, 0>>
    ELSE LET e == MatchAt(pat, s, p) IN
         IF e # 0 THEN <<p, e>> ELSE SearchFrom(pat, s, p + 1)

\* re.split(pattern, text, flags=re.IGNORECASE): the parts between the
\* non-overlapping matches, scanning left to right
RECURSIVE ReSplitFrom(_, _, _)
ReSplitFrom(pat, s, p) ==
    LET m == SearchFrom(pat, s, p) IN
    IF m[1] = 0 THEN << SubSeq(s, p, Len(s)) >>
    ELSE << SubSeq(s, p, m[1] - 1) >> \o ReSplitFrom(pat, s, m[2])

ReSplit(pat, s) == ReSplitFrom(pat, s, 1)

\* [p.strip() for p in parts if p.strip()]
RECURSIVE CleanParts(_)
CleanParts(parts) ==
    IF parts = <<>> THEN <<>>
    ELSE LET h == Strip(Head(parts)) IN
         (IF h # <<>> THEN <<h>> ELSE <<>>) \o CleanParts(Tail(parts))

\* CommandParser._detect_chain: the chain type of the first rule that
\* re.search finds in the text, or None
RECURSIVE DetectFrom(_, _)
DetectFrom(t, k) ==
    IF k > Len(CHAIN_PATTERNS) THEN None
    ELSE IF SearchFrom(CHAIN_PATTERNS[k], t, 1)[1] # 0 THEN CHAIN_PATTERNS[k].type
    ELSE DetectFrom(t, k + 1)

detect_chain(t) == DetectFrom(t, 1)

\* CommandParser.is_chain
is_chain(t) == detect_chain(t) # None

\* a split that tries the rules from the last one to the first
RECURSIVE SplitFrom_reversed(_, _)
SplitFrom_reversed(t, k) ==
    IF k > Len(CHAIN_PATTERNS) THEN << <<t>>, "none" >>
    ELSE LET rule  == CHAIN_PATTERNS[Len(CHAIN_PATTERNS) + 1 - k]
             parts == ReSplit(rule, t)
             segs  == CleanParts(parts)
         IN  IF Len(parts) > 1 /\ Len(segs) > 1
             THEN <<segs, rule.type>>
             ELSE SplitFrom_reversed(t, k + 1)

\* CommandParser._split_chain: <<segments, chain_type>>
RECURSIVE SplitFrom(_, _)
SplitFrom(t, k) ==
    IF k > Len(CHAIN_PATTERNS) THEN << <<t>>, "none" >>
    ELSE LET parts == ReSplit(CHAIN_PATTERNS[k], t)
             segs  == CleanParts(parts)
         IN  IF Len(parts) > 1 /\ Len(segs) > 1
             THEN <<segs, CHAIN_PATTERNS[k].type>>
             ELSE SplitFrom(t, k + 1)

split_chain(t) == SplitFrom(t, 1)

(***************************************************************************)
(* Scores.  A confidence is the exact fraction <<numerator, denominator>>; *)
(* the code computes it in floating point from the same quotient.          *)
(***************************************************************************)
GT(a, b) == a[1] * b[2] > b[1] * a[2]
GE(a, b) == a[1] * b[2] >= b[1] * a[2]
SameScore(a, b) == a[1] * b[2] = b[1] * a[2]

ZERO == <<0, 1>>
LEARNED_CONFIDENCE == <<98, 100>>     \* parser.py:532
LEARNED_FUZZY_FLOOR == <<90, 100>>    \* parser.py:724
PHRASE_CONTAINS == <<92, 100>>        \* parser.py:679
PHRASE_FLOOR == <<85, 100>>           \* parser.py:688, 692, 540
KEYWORD_CONTAINS == <<90, 100>>       \* parser.py:575
KEYWORD_FUZZY_FLOOR == <<80, 100>>    \* parser.py:584
REGEX_SCORE == <<95, 100>>            \* parser.py:591
ACCEPT_FLOOR == <<60, 100>>           \* parser.py:596

\* One row of the longest-common-subsequence table: prev is the row of the
\* previous character of a, c the current character, acc the row so far.
RECURSIVE LCSRow(_, _, _, _)
LCSRow(prev, c, b, acc) ==
    LET j == Len(acc) + 1 IN
    IF j > Len(b) THEN acc
    ELSE LET diag == IF j = 1 THEN 0 ELSE prev[j - 1]
             left == IF j = 1 THEN 0 ELSE acc[j - 1]
             v == IF c = b[j] THEN diag + 1
                  ELSE IF prev[j] > left THEN prev[j] ELSE left
         IN  LCSRow(prev, c, b, Append(acc, v))

\* the rows of the table, one per character of a; a row has Len(b) entries
RECURSIVE LCSRows(_, _, _, _)
LCSRows(prev, a, b, i) ==
    IF i > Len(a) \/ Len(prev) # Len(b) THEN prev
    ELSE LCSRows(LCSRow(prev, a[i], b, <<>>), a, b, i + 1)

\* length of the longest common subsequence of a and b
LCS(a, b) ==
    IF Len(a) = 0 \/ Len(b) = 0 THEN 0
    ELSE LCSRows([j \in 1..Len(b) |-> 0], a, b, 1)[Len(b)]

\* rapidfuzz fuzz.ratio(a, b) / 100: the normalized Indel similarity
\* 1 - (len(a) + len(b) - 2 LCS) / (len(a) + len(b)); 1 for two empty strings
ratio(a, b) ==
    IF Len(a) + Len(b) = 0 THEN <<1, 1>> ELSE <<2 * LCS(a, b), Len(a) + Len(b)>>

\* the best of a non-empty set of scores
BestOf(S) == CHOOSE x \in S : \A y \in S : GE(x, y)

\* The alignments of a needle of length m in a longer string: every window of
\* length m, every shorter prefix and every shorter suffix.
Alignments(long, m) ==
    { SubSeq(long, i, j) : <<i, j>> \in
        { w \in (1..Len(long)) \X (1..Len(long)) :
            /\ w[1] <= w[2]
            /\ \/ w[2] - w[1] + 1 = m
               \/ w[1] = 1 /\ w[2] - w[1] + 1 < m
               \/ w[2] = Len(long) /\ w[2] - w[1] + 1 < m } }

\* rapidfuzz fuzz.partial_ratio(a, b) / 100: the ratio of the best alignment of
\* the shorter string in the longer one
partial_ratio(a, b) ==
    IF Len(a) = 0 /\ Len(b) = 0 THEN <<1, 1>>
    ELSE IF Len(a) = 0 \/ Len(b) = 0 THEN ZERO
    ELSE LET short == IF Len(a) <= Len(b) THEN a ELSE b
             long  == IF Len(a) <= Len(b) THEN b ELSE a
         IN  BestOf({ ratio(short, w) : w \in Alignments(long, Len(short)) })

\* Python's `needle in hay` for strings
Contains(needle, hay) ==
    \E p \in 1..(Len(hay) - Len(needle) + 1) :
        \A k \in 1..Len(needle) : hay[p + k - 1] = needle[k]

\* str.split(): the maximal runs of non-whitespace characters
RECURSIVE WordEnd(_, _)
WordEnd(s, p) == IF p <= Len(s) /\ ~IsSpace(s[p]) THEN WordEnd(s, p + 1) ELSE p

RECURSIVE SplitWordsFrom(_, _)
SplitWordsFrom(s, p) ==
    LET a == SkipSpace(s, p) IN
    IF a > Len(s) THEN <<>>
    ELSE LET e == WordEnd(s, a) IN << SubSeq(s, a, e - 1) >> \o SplitWordsFrom(s, e)

SplitWords(s) == SplitWordsFrom(s, 1)

(***************************************************************************)
(* Intent regexes.  The catalogs below use these regex shapes:              *)
(*   [kind |-> "full", lit |-> w]   ^w$          no capture group          *)
(*   [kind |-> "arg",  lit |-> w]   w\s+(.+)     one capture group         *)
(*   [kind |-> "file", lit |-> w, ext |-> x]   w\s+(.+\.x)                  *)
(*   [kind |-> "opt",  lit |-> w, ext |-> x]   w\s+x\s*(.+)?                 *)
(* all searched with re.IGNORECASE.                                        *)
(***************************************************************************)
NoMatch == [matched |-> FALSE, groups |-> <<>>]

\* w\s+(.+) attempted at position p.  \s+ is greedy; when only whitespace
\* follows, it gives back its last character to (.+).
ArgMatchAt(w, s, p) ==
    IF ~LitAtCI(w, s, p) THEN NoMatch
    ELSE LET q == p + Len(w)
             r == SkipSpace(s, q)
         IN  IF r > q /\ r <= Len(s)
             THEN [matched |-> TRUE, groups |-> << SubSeq(s, r, Len(s)) >>]
             ELSE IF r > Len(s) /\ r - q >= 2
             THEN [matched |-> TRUE, groups |-> << SubSeq(s, Len(s), Len(s)) >>]
             ELSE NoMatch

RECURSIVE ArgSearchFrom(_, _, _)
ArgSearchFrom(w, s, p) ==
    IF p > Len(s) THEN NoMatch
    ELSE LET m == ArgMatchAt(w, s, p) IN
         IF m.matched THEN m ELSE ArgSearchFrom(w, s, p + 1)

\* w\s+(.+\.x) attempted at position p: the group starts at g after the
\* whitespace and ends with the last ".x" that has a character before it
FileMatchAt(w, x, s, p) ==
    IF ~LitAtCI(w, s, p) THEN NoMatch
    ELSE LET q == p + Len(w)
             dot == <<".">> \o x
             Ends(g) == { e \in g + Len(dot) .. Len(s) : LitAtCI(dot, s, e - Len(dot) + 1) }
             Starts == { g \in q + 1 .. SkipSpace(s, q) : g <= Len(s) /\ Ends(g) # {} }
         IN  IF Starts = {} THEN NoMatch
             ELSE LET g == CHOOSE a \in Starts : \A b \in Starts : b <= a
                      e == CHOOSE a \in Ends(g) : \A b \in Ends(g) : b <= a
                  IN  [matched |-> TRUE, groups |-> << SubSeq(s, g, e) >>]

RECURSIVE FileSearchFrom(_, _, _, _)
FileSearchFrom(w, x, s, p) ==
    IF p > Len(s) THEN NoMatch
    ELSE LET m == FileMatchAt(w, x, s, p) IN
         IF m.matched THEN m ELSE FileSearchFrom(w, x, s, p + 1)

\* w\s+x\s*(.+)? attempted at position p.  The optional group takes the
\* rest of the text after the whitespace; when nothing is left it does not
\* take part in the match and is None, here the empty group.
OptMatchAt(w, x, s, p) ==
    IF ~LitAtCI(w, s, p) THEN NoMatch
    ELSE LET q == SkipSpace(s, p + Len(w)) IN
         IF ~(q > p + Len(w) /\ LitAtCI(x, s, q)) THEN NoMatch
         ELSE LET r == SkipSpace(s, q + Len(x)) IN
              [matched |-> TRUE,
               groups |-> << IF r <= Len(s) THEN SubSeq(s, r, Len(s)) ELSE <<>> >>]

RECURSIVE OptSearchFrom(_, _, _, _)
OptSearchFrom(w, x, s, p) ==
    IF p > Len(s) THEN NoMatch
    ELSE LET m == OptMatchAt(w, x, s, p) IN
         IF m.matched THEN m ELSE OptSearchFrom(w, x, s, p + 1)

\* re.search(regex, text, re.IGNORECASE)
re_search(regex, s) ==
    IF regex.kind = "full"
    THEN IF Len(s) = Len(regex.lit) /\ LitAtCI(regex.lit, s, 1)
         THEN [matched |-> TRUE, groups |-> <<>>] ELSE NoMatch
    ELSE IF regex.kind = "file"
    THEN FileSearchFrom(regex.lit, regex.ext, s, 1)
    ELSE IF regex.kind = "opt"
    THEN OptSearchFrom(regex.lit, regex.ext, s, 1)
    ELSE ArgSearchFrom(regex.lit, s, 1)

(***************************************************************************)
(* The catalog and the phrase table: entries of the built-in tables.       *)
(***************************************************************************)
W_summarize == <<"s","u","m","m","a","r","i","z","e">>
W_tldr == <<"t","l","d","r">>
W_crawl == <<"c","r","a","w","l">>
W_help == <<"h","e","l","p">>
W_news == <<"n","e","w","s">>
W_menu == <<"m","e","n","u">>
W_spider == <<"s","p","i","d","e","r">>
W_sum_up == <<"s","u","m",SP,"u","p">>
W_pdf == <<"p","d","f">>
\* examples of the built-in intents (parser.py:238, 252, 434)
E_tldr_story == <<"t","l","d","r",SP,"h","t","t","p","s",":","/","/","n","e","w","s",".","c","o","m","/","s","t","o","r","y">>
E_crawl_example == <<"c","r","a","w","l",SP,"h","t","t","p","s",":","/","/","e","x","a","m","p","l","e",".","c","o","m">>
E_summarize_paper == <<"s","u","m","m","a","r","i","z","e",SP,"p","a","p","e","r",".","p","d","f">>

\* CommandParser._setup_default_intents: IntentPattern entries, in
\* registration order (a dict keeps insertion order)
default_intents == <<
    [intent |-> "summarize",
     keywords |-> <<W_summarize, W_tldr>>,
     patterns |-> << [kind |-> "arg", lit |-> W_summarize], [kind |-> "arg", lit |-> W_tldr] >>,
     examples |-> << E_tldr_story >>,
     slots |-> <<"target">>],
    [intent |-> "crawl",
     keywords |-> <<W_crawl>>,
     patterns |-> << [kind |-> "arg", lit |-> W_crawl] >>,
     examples |-> << E_crawl_example >>,
     slots |-> <<"url", "depth">>],
    [intent |-> "help",
     keywords |-> <<W_help>>,
     patterns |-> << [kind |-> "full", lit |-> W_help] >>,
     examples |-> << W_help >>,
     slots |-> <<>>],
    [intent |-> "news",
     keywords |-> <<W_news>>,
     patterns |-> << [kind |-> "full", lit |-> W_news] >>,
     examples |-> << W_news >>,
     slots |-> <<"category", "subcommand", "url", "target">>],
    [intent |-> "document",
     keywords |-> <<W_pdf>>,
     patterns |-> << [kind |-> "file", lit |-> W_summarize, ext |-> W_pdf] >>,
     examples |-> << E_summarize_paper >>,
     slots |-> <<"path">>] >>

\* PHRASE_VARIATIONS, in table order
PHRASE_VARIATIONS == <<
    [intent |-> "crawl", phrases |-> <<W_spider>>],
    [intent |-> "help", phrases |-> <<W_menu>>],
    [intent |-> "summarize", phrases |-> <<W_sum_up>>] >>

\* no IntentPattern: get_intent_pattern returning None
NoIntentPattern ==
    [intent |-> None, keywords |-> <<>>, patterns |-> <<>>, examples |-> <<>>, slots |-> <<>>]

\* `name in self.intents`
Registered(catalog, name) == \E i \in DOMAIN catalog : catalog[i].intent = name

\* self.intents[name]
IntentOf(catalog, name) ==
    catalog[CHOOSE i \in DOMAIN catalog : catalog[i].intent = name]

\* a registration that keeps the entry the catalog already has (first write wins)
register_intent_first_wins(catalog, pattern) ==
    IF Registered(catalog, pattern.intent) THEN catalog ELSE Append(catalog, pattern)

\* CommandParser.register_intent: self.intents[pattern.intent] = pattern.  A
\* dict assignment replaces the value in place and appends a new key.
register_intent(catalog, pattern) ==
    IF Registered(catalog, pattern.intent)
    THEN [i \in DOMAIN catalog |->
            IF catalog[i].intent = pattern.intent THEN pattern ELSE catalog[i]]
    ELSE Append(catalog, pattern)

(***************************************************************************)
(* The three matching strategies.  A running best is                       *)
(* [intent |-> name or None, score |-> fraction].                          *)
(***************************************************************************)
EmptyDict == [k \in {} |-> <<>>]
TRUE_VALUE == <<"True">>
\* params=None of learn_correction
NoneParams == [k \in {"<None>"} |-> <<>>]

NoBest == [intent |-> None, score |-> ZERO]

\* one phrase of the phrase table, an equal score replacing the running best
PhraseStep_last_wins(best, intent, phrase, t) ==
    IF Contains(phrase, t)
    THEN IF GE(PHRASE_CONTAINS, best.score)
         THEN [intent |-> intent, score |-> PHRASE_CONTAINS] ELSE best
    ELSE LET r == partial_ratio(phrase, t) IN
         IF GT(r, PHRASE_FLOOR) /\ GE(r, best.score)
         THEN [intent |-> intent, score |-> r] ELSE best

\* one phrase of the phrase table (parser.py:676-690)
PhraseStep(best, intent, phrase, t) ==
    IF Contains(phrase, t)
    THEN IF GT(PHRASE_CONTAINS, best.score)
         THEN [intent |-> intent, score |-> PHRASE_CONTAINS] ELSE best
    ELSE LET r == partial_ratio(phrase, t) IN
         IF GT(r, PHRASE_FLOOR) /\ GT(r, best.score)
         THEN [intent |-> intent, score |-> r] ELSE best

RECURSIVE PhraseFold(_, _, _, _)
PhraseFold(best, intent, phrases, t) ==
    IF phrases = <<>> THEN best
    ELSE PhraseFold(PhraseStep(best, intent, Head(phrases), t), intent, Tail(phrases), t)

RECURSIVE PhraseTableFold(_, _, _, _)
PhraseTableFold(best, table, catalog, t) ==
    IF table = <<>> THEN best
    ELSE LET e == Head(table)
             b == IF ~Registered(catalog, e.intent) THEN best
                  ELSE PhraseFold(best, e.intent, e.phrases, t)
         IN  PhraseTableFold(b, Tail(table), catalog, t)

\* CommandParser._match_phrase_variations: [intent, score], intent None for
\* no match
match_phrase_variations(catalog, t) ==
    LET best == PhraseTableFold(NoBest, PHRASE_VARIATIONS, catalog, t) IN
    IF best.intent # None /\ GE(best.score, PHRASE_FLOOR) THEN best ELSE NoBest

\* the fuzzy loop over the words for one keyword (parser.py:582-586)
RECURSIVE WordFold(_, _, _, _)
WordFold(best, intent, keyword, words) ==
    IF words = <<>> THEN best
    ELSE LET r == ratio(keyword, Head(words))
             b == IF GT(r, KEYWORD_FUZZY_FLOOR) /\ GT(r, best.score)
                  THEN [intent |-> intent, score |-> r] ELSE best
         IN  WordFold(b, intent, keyword, Tail(words))

\* one keyword (parser.py:572-586)
KeywordStep(best, intent, keyword, t) ==
    IF Contains(keyword, t)
    THEN IF GT(KEYWORD_CONTAINS, best.score)
         THEN [intent |-> intent, score |-> KEYWORD_CONTAINS] ELSE best
    ELSE WordFold(best, intent, keyword, SplitWords(t))

RECURSIVE KeywordFold(_, _, _, _)
KeywordFold(best, intent, keywords, t) ==
    IF keywords = <<>> THEN best
    ELSE KeywordFold(KeywordStep(best, intent, Head(keywords), t), intent, Tail(keywords), t)

\* the regexes of one intent (parser.py:589-594)
RECURSIVE RegexFold(_, _, _, _)
RegexFold(best, intent, patterns, t) ==
    IF patterns = <<>> THEN best
    ELSE LET b == IF re_search(Head(patterns), t).matched /\ GT(REGEX_SCORE, best.score)
                  THEN [intent |-> intent, score |-> REGEX_SCORE] ELSE best
         IN  RegexFold(b, intent, Tail(patterns), t)

\* the intents in registration order, stopping at the first intent that scores
RECURSIVE IntentFold_first_hit(_, _, _)
IntentFold_first_hit(best, catalog, t) ==
    IF catalog = <<>> \/ best.intent # None THEN best
    ELSE LET p == Head(catalog)
             k == KeywordFold(best, p.intent, p.keywords, t)
         IN  IntentFold_first_hit(RegexFold(k, p.intent, p.patterns, t), Tail(catalog), t)

\* the intents in registration order (parser.py:570-594)
RECURSIVE IntentFold(_, _, _)
IntentFold(best, catalog, t) ==
    IF catalog = <<>> THEN best
    ELSE LET p == Head(catalog)
             k == KeywordFold(best, p.intent, p.keywords, t)
         IN  IntentFold(RegexFold(k, p.intent, p.patterns, t), Tail(catalog), t)

\* CommandParser._match_keywords
match_keywords(catalog, t) ==
    LET best == IntentFold(NoBest, catalog, t) IN
    IF best.intent # None /\ GE(best.score, ACCEPT_FLOOR) THEN best ELSE NoBest

\* A learned pattern is [phrase, intent, params, use_count]; NoPattern stands
\* for Python's None.
NoPattern == [phrase |-> <<>>, intent |-> None, params |-> NoneParams, use_count |-> 0]

\* the loop of _match_learned_patterns from entry k on (parser.py:715-728)
RECURSIVE LearnedFold(_, _, _, _, _)
LearnedFold(best_match, best_score, patterns, k, t) ==
    IF k > Len(patterns) THEN best_match
    ELSE IF t = patterns[k].phrase THEN patterns[k]
    ELSE LET r == ratio(patterns[k].phrase, t) IN
         IF GT(r, LEARNED_FUZZY_FLOOR) /\ GT(r, best_score)
         THEN LearnedFold(patterns[k], r, patterns, k + 1, t)
         ELSE LearnedFold(best_match, best_score, patterns, k + 1, t)

\* CommandParser._match_learned_patterns; cache is _learned_patterns_cache
match_learned_patterns(cache, t, user_id) ==
    IF user_id \notin DOMAIN cache THEN NoPattern
    ELSE IF cache[user_id] = <<>> THEN NoPattern
    ELSE LearnedFold(NoPattern, ZERO, cache[user_id], 1, t)

(***************************************************************************)
(* Slots, entities and parse().  A dict is a function on its set of keys;  *)
(* Python's True is the value TRUE_VALUE.                                  *)
(***************************************************************************)

Put(d, k, v) == [x \in DOMAIN d \cup {k} |-> IF x = k THEN v ELSE d[x]]

\* bool(d.get(k)): the key is present with a non-empty value
Truthy(d, k) == k \in DOMAIN d /\ d[k] # <<>>

\* the slot loop of _extract_params (parser.py:610-612)
RECURSIVE SlotFold(_, _, _, _)
SlotFold(params, slots, groups, i) ==
    IF i > Len(slots) THEN params
    ELSE IF i <= Len(groups) /\ groups[i] # <<>>
    THEN SlotFold(Put(params, slots[i], Strip(groups[i])), slots, groups, i + 1)
    ELSE SlotFold(params, slots, groups, i + 1)

\* an extraction that goes on after a match: the last regex that matches
\* fills the slots
RECURSIVE ParamsFrom_last_match(_, _, _)
ParamsFrom_last_match(t, patterns, slots) ==
    IF patterns = <<>> THEN EmptyDict
    ELSE LET m == re_search(Head(patterns), t)
             later == ParamsFrom_last_match(t, Tail(patterns), slots)
         IN  IF m.matched /\ later = EmptyDict THEN SlotFold(EmptyDict, slots, m.groups, 1)
             ELSE later

\* CommandParser._extract_params: the first regex that matches fills the slots
RECURSIVE ParamsFrom(_, _, _)
ParamsFrom(t, patterns, slots) ==
    IF patterns = <<>> THEN EmptyDict
    ELSE LET m == re_search(Head(patterns), t) IN
         IF m.matched THEN SlotFold(EmptyDict, slots, m.groups, 1)
         ELSE ParamsFrom(t, Tail(patterns), slots)

extract_params(t, pattern) == ParamsFrom(t, pattern.patterns, pattern.slots)

\* the characters the URL regex admits, [^\s<>"{}|\\^`\[\]]; of the excluded
\* ones the texts here use whitespace, the pipe, the brackets and the braces
UrlChar(c) == c \notin {SP, "<", ">", "{", "}", "|", "^", "[", "]"}

LitAt(w, s, p) ==
    /\ p + Len(w) - 1 <= Len(s)
    /\ \A k \in 1..Len(w) : s[p + k - 1] = w[k]

RECURSIVE UrlEnd(_, _)
UrlEnd(s, p) == IF p <= Len(s) /\ UrlChar(s[p]) THEN UrlEnd(s, p + 1) ELSE p

\* https?://[^...]+ attempted at position p: the end (exclusive) or 0
UrlMatchAt(s, p) ==
    LET h == <<"h","t","t","p">>
        c == <<":","/","/">>
        q == IF LitAt(h, s, p)
             THEN IF LitAt(<<"s">> \o c, s, p + 4) THEN p + 8
                  ELSE IF LitAt(c, s, p + 4) THEN p + 7 ELSE 0
             ELSE 0
    IN  IF q # 0 /\ UrlEnd(s, q) > q THEN UrlEnd(s, q) ELSE 0

\* re.findall(url_pattern, text)
RECURSIVE FindUrls(_, _)
FindUrls(s, p) ==
    IF p > Len(s) THEN <<>>
    ELSE LET e == UrlMatchAt(s, p) IN
         IF e # 0 THEN << SubSeq(s, p, e - 1) >> \o FindUrls(s, e)
         ELSE FindUrls(s, p + 1)

\* re.sub(url_pattern, '', text)
RECURSIVE RemoveUrls(_, _)
RemoveUrls(s, p) ==
    IF p > Len(s) THEN <<>>
    ELSE LET e == UrlMatchAt(s, p) IN
         IF e # 0 THEN RemoveUrls(s, e)
         ELSE << s[p] >> \o RemoveUrls(s, p + 1)

Digits == <<"0","1","2","3","4","5","6","7","8","9">>
IsDigit(c) == \E i \in DOMAIN Digits : Digits[i] = c
IsLetter(c) == \E i \in DOMAIN LowerLetters : LowerLetters[i] = LowerChar(c)
\* \w
IsWordChar(c) == IsDigit(c) \/ IsLetter(c) \/ c = "_"

\* \b at position p: exactly one of the characters before and at p is a word
\* character
BoundaryAt(s, p) ==
    (p > 1 /\ IsWordChar(s[p - 1])) # (p <= Len(s) /\ IsWordChar(s[p]))

RECURSIVE DigitsEnd(_, _)
DigitsEnd(s, p) == IF p <= Len(s) /\ IsDigit(s[p]) THEN DigitsEnd(s, p + 1) ELSE p

\* \b(\d+(?:\.\d+)?)\b attempted at position p: the end (exclusive) or 0.
\* The digits are taken greedily; the fraction is given up when no word
\* boundary follows it.
NumberMatchAt(s, p) ==
    IF ~(p <= Len(s) /\ IsDigit(s[p]) /\ BoundaryAt(s, p)) THEN 0
    ELSE LET q == DigitsEnd(s, p)
             r == IF q + 1 <= Len(s) /\ s[q] = "." /\ IsDigit(s[q + 1])
                  THEN DigitsEnd(s, q + 1) ELSE 0
         IN  IF r # 0 /\ BoundaryAt(s, r) THEN r
             ELSE IF BoundaryAt(s, q) THEN q ELSE 0

RECURSIVE DropLeadingZeros(_)
DropLeadingZeros(d) ==
    IF Len(d) > 1 /\ Head(d) = "0" THEN DropLeadingZeros(Tail(d)) ELSE d

RECURSIVE DropTrailingZeros(_)
DropTrailingZeros(d) ==
    IF Len(d) > 1 /\ d[Len(d)] = "0" THEN DropTrailingZeros(SubSeq(d, 1, Len(d) - 1)) ELSE d

\* float(n) if '.' in n else int(n), written as Python writes the number
NumberValue(n) ==
    IF \E i \in DOMAIN n : n[i] = "."
    THEN LET dot == CHOOSE i \in DOMAIN n : n[i] = "." IN
         DropLeadingZeros(SubSeq(n, 1, dot - 1)) \o <<".">>
             \o DropTrailingZeros(SubSeq(n, dot + 1, Len(n)))
    ELSE DropLeadingZeros(n)

\* re.findall(r'\b(\d+(?:\.\d+)?)\b', text), converted (parser.py:647-649)
RECURSIVE FindNumbers(_, _)
FindNumbers(s, p) ==
    IF p > Len(s) THEN <<>>
    ELSE LET e == NumberMatchAt(s, p) IN
         IF e # 0 THEN << NumberValue(SubSeq(s, p, e - 1)) >> \o FindNumbers(s, e)
         ELSE FindNumbers(s, p + 1)

\* [a-zA-Z0-9._%+-] and [a-zA-Z0-9.-]
IsLocalChar(c) == IsLetter(c) \/ IsDigit(c) \/ c \in {".", "_", "%", "+", "-"}
IsDomainChar(c) == IsLetter(c) \/ IsDigit(c) \/ c \in {".", "-"}

RECURSIVE LocalEnd(_, _)
LocalEnd(s, p) == IF p <= Len(s) /\ IsLocalChar(s[p]) THEN LocalEnd(s, p + 1) ELSE p
RECURSIVE DomainEnd(_, _)
DomainEnd(s, p) == IF p <= Len(s) /\ IsDomainChar(s[p]) THEN DomainEnd(s, p + 1) ELSE p
RECURSIVE LettersEnd(_, _)
LettersEnd(s, p) == IF p <= Len(s) /\ IsLetter(s[p]) THEN LettersEnd(s, p + 1) ELSE p

\* the email regex attempted at position p: the end (exclusive) or 0.  The
\* domain is taken greedily up to its last dot that two letters follow.
EmailMatchAt(s, p) ==
    LET at == LocalEnd(s, p) IN
    IF ~(at > p /\ at <= Len(s) /\ s[at] = "@") THEN 0
    ELSE LET dots == { d \in (at + 2)..(DomainEnd(s, at + 1) - 1) :
                         s[d] = "." /\ LettersEnd(s, d + 1) >= d + 3 }
         IN  IF dots = {} THEN 0
             ELSE LettersEnd(s, (CHOOSE d \in dots : \A x \in dots : x <= d) + 1)

\* re.findall(email_pattern, text)
RECURSIVE FindEmails(_, _)
FindEmails(s, p) ==
    IF p > Len(s) THEN <<>>
    ELSE LET e == EmailMatchAt(s, p) IN
         IF e # 0 THEN << SubSeq(s, p, e - 1) >> \o FindEmails(s, e)
         ELSE FindEmails(s, p + 1)

\* dateparser.parse(text, settings): the third-party date resolver.  It
\* resolves a text that is a date expression and returns None for any
\* other; the date expressions of the texts used here are the ones below, and
\* the resolved date is written as the expression.
W_tomorrow == <<"t","o","m","o","r","r","o","w">>
DateExpressions == { W_tomorrow }
NoDate == <<>>
dateparser_parse(s) ==
    IF Lower(Strip(s)) \in DateExpressions THEN Lower(Strip(s)) ELSE NoDate

\* an entity is set when its value is truthy (parser.py:624, 630, 643, 648)
PutTruthy(d, k, v) == IF v # <<>> THEN Put(d, k, v) ELSE d

\* CommandParser._extract_entities: urls and emails of the text, the date of
\* the text without its URLs, and the numbers of the text
extract_entities(t) ==
    PutTruthy(PutTruthy(PutTruthy(PutTruthy(EmptyDict,
        "urls", FindUrls(t, 1)),
        "emails", FindEmails(t, 1)),
        "datetime", dateparser_parse(RemoveUrls(t, 1))),
        "numbers", FindNumbers(t, 1))

\* ParsedCommand(raw_text=text)
ParsedCommand(raw) ==
    [raw_text |-> raw, intent |-> None, confidence |-> ZERO, params |-> EmptyDict,
     entities |-> EmptyDict, chain_type |-> None, use_previous_output |-> FALSE]

\* `user_id and user_id in self._learned_patterns_cache`
UsesLearned(cache, user_id) == user_id # None /\ user_id \in DOMAIN cache

\* parse with the keyword/regex match consulted before the phrase variations
parse_strategies_keyword_first(catalog, result, t, learned_match, phrase_match, best_match) ==
    IF learned_match # NoPattern
    THEN [result EXCEPT !.intent = learned_match.intent,
                        !.confidence = LEARNED_CONFIDENCE,
                        !.params = IF learned_match.params \in {NoneParams, EmptyDict}
                                   THEN EmptyDict ELSE learned_match.params,
                        !.entities = extract_entities(t)]
    ELSE IF best_match.intent # None
    THEN [result EXCEPT !.intent = best_match.intent,
                        !.confidence = best_match.score,
                        !.params = extract_params(t, IntentOf(catalog, best_match.intent)),
                        !.entities = extract_entities(t)]
    ELSE IF phrase_match.intent # None /\ GE(phrase_match.score, PHRASE_FLOOR)
    THEN [result EXCEPT !.intent = phrase_match.intent,
                        !.confidence = phrase_match.score,
                        !.params = extract_params(t, IntentOf(catalog, phrase_match.intent)),
                        !.entities = extract_entities(t)]
    ELSE result

\* CommandParser.parse, the strategy cascade (parser.py:527-561): a learned
\* match is returned first, then a phrase variation at or above 0.85, then the
\* best keyword/regex match, otherwise the empty result
parse_strategies(catalog, result, t, learned_match, phrase_match, best_match) ==
    IF learned_match # NoPattern
    THEN [result EXCEPT !.intent = learned_match.intent,
                        !.confidence = LEARNED_CONFIDENCE,
                        !.params = IF learned_match.params \in {NoneParams, EmptyDict}
                                   THEN EmptyDict ELSE learned_match.params,
                        !.entities = extract_entities(t)]
    ELSE IF phrase_match.intent # None /\ GE(phrase_match.score, PHRASE_FLOOR)
    THEN [result EXCEPT !.intent = phrase_match.intent,
                        !.confidence = phrase_match.score,
                        !.params = extract_params(t, IntentOf(catalog, phrase_match.intent)),
                        !.entities = extract_entities(t)]
    ELSE IF best_match.intent # None
    THEN [result EXCEPT !.intent = best_match.intent,
                        !.confidence = best_match.score,
                        !.params = extract_params(t, IntentOf(catalog, best_match.intent)),
                        !.entities = extract_entities(t)]
    ELSE result

\* the learned-pattern lookup of parse (parser.py:528-529)
learned_lookup(cache, normalized, user_id) ==
    IF UsesLearned(cache, user_id)
    THEN match_learned_patterns(cache, normalized, user_id)
    ELSE NoPattern

\* CommandParser.parse on the stripped text (parser.py:519-526)
parse_stripped(catalog, cache, t, normalized, user_id) ==
    IF t = <<>> THEN ParsedCommand(t)
    ELSE parse_strategies(catalog, ParsedCommand(t), t,
                          learned_lookup(cache, normalized, user_id),
                          match_phrase_variations(catalog, normalized),
                          match_keywords(catalog, normalized))

parse_text(catalog, cache, t, user_id) ==
    parse_stripped(catalog, cache, t, Lower(t), user_id)

\* CommandParser.parse
parse(catalog, cache, raw, user_id) ==
    parse_text(catalog, cache, Strip(raw), user_id)

\* the flags parse_chain sets on one parsed segment (parser.py:855-863)
chain_flags(cmd, last, chain_type, i) ==
    IF chain_type = "pipe" /\ i > 1
    THEN [cmd EXCEPT !.chain_type = IF last THEN None ELSE chain_type,
                     !.use_previous_output = TRUE,
                     !.params = IF ~Truthy(cmd.params, "target") /\ ~Truthy(cmd.entities, "urls")
                                THEN Put(cmd.params, "_use_previous", TRUE_VALUE)
                                ELSE cmd.params]
    ELSE [cmd EXCEPT !.chain_type = IF last THEN None ELSE chain_type]

\* one segment of parse_chain (parser.py:852-865)
ChainCommand(catalog, cache, segs, chain_type, i, user_id) ==
    chain_flags(parse(catalog, cache, segs[i], user_id), i >= Len(segs), chain_type, i)

\* parse_chain once the text is split (parser.py:842-868)
chain_of(catalog, cache, t, sp, user_id) ==
    IF Len(sp[1]) = 1
    THEN [commands |-> << parse(catalog, cache, t, user_id) >>, chain_type |-> "none"]
    ELSE [commands |-> [i \in 1..Len(sp[1]) |->
                            ChainCommand(catalog, cache, sp[1], sp[2], i, user_id)],
          chain_type |-> sp[2]]

parse_chain_text(catalog, cache, t, user_id) ==
    chain_of(catalog, cache, t, split_chain(t), user_id)

\* CommandParser.parse_chain: CommandChain(commands, chain_type)
parse_chain(catalog, cache, raw, user_id) ==
    parse_chain_text(catalog, cache, Strip(raw), user_id)

(***************************************************************************)
(* The learned-correction cache and its persistence collaborator.          *)
(***************************************************************************)
\* a cache update that appends a new entry whatever the list has
UpdateFirst_appending(patterns, normalized, correct_intent, params) ==
    Append(patterns, [phrase |-> normalized, intent |-> correct_intent,
                      params |-> params, use_count |-> 1])

\* a cache update that gives an existing entry the new intent and leaves it
\* the params it had
RECURSIVE UpdateFirst_intent_only(_, _, _, _)
UpdateFirst_intent_only(patterns, normalized, correct_intent, params) ==
    IF patterns = <<>>
    THEN << [phrase |-> normalized, intent |-> correct_intent,
             params |-> params, use_count |-> 1] >>
    ELSE IF Head(patterns).phrase = normalized
    THEN << [Head(patterns) EXCEPT !.intent = correct_intent,
                                   !.use_count = @ + 1] >> \o Tail(patterns)
    ELSE << Head(patterns) >> \o UpdateFirst_intent_only(Tail(patterns), normalized, correct_intent, params)

\* the cache update of learn_correction (parser.py:769-790)
RECURSIVE UpdateFirst(_, _, _, _)
UpdateFirst(patterns, normalized, correct_intent, params) ==
    IF patterns = <<>>
    THEN << [phrase |-> normalized, intent |-> correct_intent,
             params |-> params, use_count |-> 1] >>
    ELSE IF Head(patterns).phrase = normalized
    THEN << [Head(patterns) EXCEPT !.intent = correct_intent, !.params = params,
                                   !.use_count = @ + 1] >> \o Tail(patterns)
    ELSE << Head(patterns) >> \o UpdateFirst(Tail(patterns), normalized, correct_intent, params)

\* a cache that keeps one list for all the users it has
cache_learn_shared(cache, user_id, phrase, correct_intent, params) ==
    LET c == IF user_id \in DOMAIN cache THEN cache
             ELSE [u \in DOMAIN cache \cup {user_id} |->
                      IF u = user_id THEN <<>> ELSE cache[u]]
    IN  [u \in DOMAIN c |-> UpdateFirst(c[user_id], Strip(Lower(phrase)), correct_intent, params)]

cache_learn(cache, user_id, phrase, correct_intent, params) ==
    LET c == IF user_id \in DOMAIN cache THEN cache
             ELSE [u \in DOMAIN cache \cup {user_id} |->
                      IF u = user_id THEN <<>> ELSE cache[u]]
    IN  [c EXCEPT ![user_id] = UpdateFirst(@, Strip(Lower(phrase)), correct_intent, params)]

\* the cache assignment of load_user_patterns (parser.py:740)
cache_load(cache, user_id, patterns) ==
    [u \in DOMAIN cache \cup {user_id} |-> IF u = user_id THEN patterns ELSE cache[u]]

\* a persistence collaborator whose write is not made by the time the
\* coroutine resumes
memory_learn_pattern_unwritten(st, user_id, phrase, correct_intent, params) == st

\* Memory.learn_pattern: the durable write of one learned pattern, keyed by
\* user and normalized phrase
memory_learn_pattern(st, user_id, phrase, correct_intent, params) ==
    [st EXCEPT ![user_id] = UpdateFirst(@, Strip(Lower(phrase)), correct_intent, params)]

\* Memory.get_user_patterns
memory_get_user_patterns(st, user_id) == st[user_id]

(***************************************************************************)
(* The parser as a state machine: corrections, session loads and parses.   *)
(***************************************************************************)
\* previous_output = None
NoOutput == <<"<None>">>

NoChain == [commands |-> <<>>, chain_type |-> "none"]
NoHandlerCall == [stage |-> 0, action |-> None, params |-> EmptyDict]

Users == {"alice", "bob"}

NoCall == [called |-> FALSE, text |-> <<>>, user_id |-> None, result |-> ParsedCommand(<<>>)]

\* the result of no execute call
NoResult == [kind |-> None, reason |-> ""]

\* ShellAction(enabled, sandboxed, allowed_commands): __init__ keeps None for
\* no allowed_commands and for an empty list, here the empty set (shell.py:74-87)
ShellAction(enabled, sandboxed, allowed_commands) ==
    [enabled |-> enabled, sandboxed |-> sandboxed, allowed_commands |-> allowed_commands,
     command |-> <<>>, running |-> FALSE, started |-> {}, result |-> NoResult]

\* WebhookServer(): no handlers and an empty queue (webhook.py:100-101)
WebhookServer ==
    /\ handlers = EmptyDict
    /\ event_queue = <<>>
    /\ receiving = <<>>
    /\ reply = 0

\* the parser right after CommandParser(memory) with an empty store
ParserStart(mem) ==
    /\ intents = default_intents
    /\ has_memory = mem
    /\ learned_patterns_cache = EmptyDict
    /\ store = [u \in Users |-> <<>>]
    /\ learning = <<>>
    /\ loading = <<>>
    /\ n_calls = 0
    /\ parsed = NoCall
    /\ corrected = [u \in Users |-> EmptyDict]
    /\ loaded_languages = <<>>
    /\ op = None
    /\ requested = <<>>
    /\ plugins = {}
    /\ registered = NoIntentPattern
    /\ shell = ShellAction(TRUE, TRUE, {})
    /\ WebhookServer

ParserIdle == ParserStart(FALSE)

ChainIdle ==
    /\ text = <<>>
    /\ detected = None
    /\ segments = <<>>
    /\ split_type = None

EngineIdle ==
    /\ actions = {}
    /\ chain = NoChain
    /\ idx = 0
    /\ results = <<>>
    /\ previous_output = NoOutput
    /\ call = NoHandlerCall
    /\ events = <<>>
    /\ stored = <<>>
    /\ response = <<>>

\* inputs of learn_correction: <<phrase, correct_intent, params>>
Corrections == {
    << <<SP,"M","e","n","u">>, "news", NoneParams >>,
    << W_menu, "ghost", Put(EmptyDict, "target", <<"x">>) >>,
    << W_menu \o <<SP>> \o W_news, "crawl", Put(EmptyDict, "target", <<"x">>) >>,
    << <<SP>>, "news", NoneParams >> }

\* inputs of parse: <<text, user_id>>
ParseCalls == {
    << <<"M","e","n","u",SP>>, "alice" >>,
    << <<"M","e","n","u",SP>>, "bob" >>,
    << <<"M","e","n","u",SP>>, None >>,
    << W_menu \o <<SP>> \o W_news \o <<"s">>, "alice" >>,
    << <<SP>>, "alice" >>,
    << <<"x","y","z","z","y">>, "alice" >> }

\* the number of learn_correction and load_user_patterns calls in a run
MaxCalls == 2

Remove(seq, k) == SubSeq(seq, 1, k - 1) \o SubSeq(seq, k + 1, Len(seq))

Init ==
    /\ pc = "parser"
    /\ ChainIdle
    /\ EngineIdle
    /\ \E mem \in BOOLEAN : ParserStart(mem)

\* learn_correction without memory: a warning, nothing else (parser.py:762-764)
LearnNoMemory(u, phrase, intent, params) ==
    /\ ~has_memory
    /\ n_calls < MaxCalls
    /\ n_calls' = n_calls + 1
    /\ parsed' = NoCall
    /\ UNCHANGED <<webhookVars, shellVars, catalogVars, pc, chainVars, engineVars, intents, has_memory, learned_patterns_cache, store, learning, loading, corrected>>

\* learn_correction up to the await: the persistence write is made
\* (parser.py:767) and the coroutine is suspended
LearnCall(u, phrase, intent, params) ==
    /\ has_memory
    /\ n_calls < MaxCalls
    /\ n_calls' = n_calls + 1
    /\ store' = memory_learn_pattern(store, u, phrase, intent, params)
    /\ learning' = Append(learning, [user_id |-> u, phrase |-> phrase,
                                     intent |-> intent, params |-> params])
    /\ parsed' = NoCall
    /\ UNCHANGED <<webhookVars, shellVars, catalogVars, pc, chainVars, engineVars, intents, has_memory, learned_patterns_cache, loading, corrected>>

\* the persistence write raises: the exception leaves learn_correction
LearnRaise(u, phrase, intent, params) ==
    /\ has_memory
    /\ n_calls < MaxCalls
    /\ n_calls' = n_calls + 1
    /\ parsed' = NoCall
    /\ UNCHANGED <<webhookVars, shellVars, catalogVars, pc, chainVars, engineVars, intents, has_memory, learned_patterns_cache, store, learning, loading, corrected>>

\* learn_correction after the await: the learned_patterns_cache update (parser.py:769-790)
LearnResume(k) ==
    /\ k \in DOMAIN learning
    /\ LET c == learning[k] IN
        /\ learned_patterns_cache' = cache_learn(learned_patterns_cache, c.user_id, c.phrase, c.intent, c.params)
        /\ corrected' = [corrected EXCEPT ![c.user_id] =
                            Put(@, Strip(Lower(c.phrase)), c.intent)]
    /\ learning' = Remove(learning, k)
    /\ parsed' = NoCall
    /\ UNCHANGED <<webhookVars, shellVars, catalogVars, pc, chainVars, engineVars, intents, has_memory, store, loading, n_calls>>

\* load_user_patterns without memory (parser.py:736-737)
LoadNoMemory(u) ==
    /\ ~has_memory
    /\ n_calls < MaxCalls
    /\ n_calls' = n_calls + 1
    /\ parsed' = NoCall
    /\ UNCHANGED <<webhookVars, shellVars, catalogVars, pc, chainVars, engineVars, intents, has_memory, learned_patterns_cache, store, learning, loading, corrected>>

\* load_user_patterns up to the await: the patterns are read (parser.py:739)
LoadCall(u) ==
    /\ has_memory
    /\ n_calls < MaxCalls
    /\ n_calls' = n_calls + 1
    /\ loading' = Append(loading, [user_id |-> u,
                                   patterns |-> memory_get_user_patterns(store, u)])
    /\ parsed' = NoCall
    /\ UNCHANGED <<webhookVars, shellVars, catalogVars, pc, chainVars, engineVars, intents, has_memory, learned_patterns_cache, store, learning, corrected>>

\* load_user_patterns after the await: the learned_patterns_cache assignment (parser.py:740)
LoadResume(k) ==
    /\ k \in DOMAIN loading
    /\ learned_patterns_cache' = cache_load(learned_patterns_cache, loading[k].user_id, loading[k].patterns)
    /\ loading' = Remove(loading, k)
    /\ parsed' = NoCall
    /\ UNCHANGED <<webhookVars, shellVars, catalogVars, pc, chainVars, engineVars, intents, has_memory, store, learning, n_calls, corrected>>

\* parse(text, user_id).  parse() leaves the parser as it is, so the result of
\* a call is kept only until the caller's next call.
Parse(t, u) ==
    /\ ~parsed.called
    /\ parsed' = [called |-> TRUE, text |-> t, user_id |-> u, result |-> parse(intents, learned_patterns_cache, t, u)]
    /\ UNCHANGED <<webhookVars, shellVars, catalogVars, pc, chainVars, engineVars, intents, has_memory, learned_patterns_cache, store, learning, loading,
                   n_calls, corrected>>

Next ==
    \/ \E u \in Users, c \in Corrections :
        \/ LearnNoMemory(u, c[1], c[2], c[3])
        \/ LearnCall(u, c[1], c[2], c[3])
        \/ LearnRaise(u, c[1], c[2], c[3])
    \/ \E k \in 1..MaxCalls : LearnResume(k)
    \/ \E u \in Users : LoadNoMemory(u) \/ LoadCall(u)
    \/ \E k \in 1..MaxCalls : LoadResume(k)
    \/ \E c \in ParseCalls : Parse(c[1], c[2])

Spec == Init /\ [][Next]_vars

\* two users of one parser with memory: each corrects, loads and parses the
\* same phrase
UserCorrections == { << W_menu, "news", NoneParams >>,
                     << <<"M","e","n","u",SP>>, "crawl", Put(EmptyDict, "target", <<"x">>) >> }
UserTexts == { W_menu, W_menu \o <<"s">> }

InitUsers ==
    /\ pc = "parser"
    /\ ChainIdle
    /\ EngineIdle
    /\ ParserStart(TRUE)

NextUsers ==
    \/ \E u \in Users, c \in UserCorrections : LearnCall(u, c[1], c[2], c[3])
    \/ \E k \in 1..MaxCalls : LearnResume(k)
    \/ \E u \in Users : LoadCall(u)
    \/ \E k \in 1..MaxCalls : LoadResume(k)
    \/ \E u \in Users, t \in UserTexts : Parse(t, u)

SpecUsers == InitUsers /\ [][NextUsers]_vars

(***************************************************************************)
(* The engine: handle_message and the chain executor (engine.py).          *)
(* A response is a sequence of tokens: the characters of command text and  *)
(* handler output, and the literal pieces of the f-strings.                *)
(***************************************************************************)
\* bool(previous_output)
OutputTruthy(o) == o # NoOutput /\ o # <<>>


\* f"[{i+1}] Could not understand: {cmd.raw_text}"  (engine.py:180)
CouldNotUnderstand(i, raw) == <<"[", ToString(i), "] Could not understand: ">> \o raw
\* f"[{i+1}] Unknown action: {cmd.intent}"  (engine.py:184)
UnknownAction(i, intent) == <<"[", ToString(i), "] Unknown action: ", intent>>
\* f"[{i+1}] Failed: {e}"  (engine.py:208)
Failed(i, e) == <<"[", ToString(i), "] Failed: ">> \o e
\* f"Sorry, that action failed: {e}"  (engine.py:142)
ActionFailed(e) == <<"Sorry, that action failed: ">> \o e
\* engine.py:146
NotConfigured(intent) ==
    <<"I understand you want to '", intent, "', but I don't have that action configured.">>
\* engine.py:148
DidNotUnderstand == <<"I didn't understand that command. Try 'help' to see what I can do.">>

\* "\n\n---\n\n".join(results)
RECURSIVE Join(_)
Join(rs) ==
    IF rs = <<>> THEN <<>>
    ELSE IF Len(rs) = 1 THEN rs[1]
    ELSE rs[1] \o <<"\n\n---\n\n">> \o Join(Tail(rs))

\* the params a chain stage's handler is called with (engine.py:189-195)
StageParams(chain_type, cmd, prev) ==
    LET params == cmd.params IN
    IF chain_type = "pipe" /\ OutputTruthy(prev) /\ cmd.use_previous_output
    THEN LET p1 == Put(params, "_previous_output", prev) IN
         IF Truthy(p1, "_use_previous") \/ ~Truthy(p1, "target")
         THEN Put(p1, "target", prev) ELSE p1
    ELSE params

\* an executor that injects into the command's own params mapping
CommandAfterInjection_aliased(cmd, params) == [cmd EXCEPT !.params = params]

\* `params = dict(cmd.params)`: the writes of the injection go to the copy
\* and the command keeps the mapping it had (engine.py:189-195)
CommandAfterInjection(cmd, params) == cmd

\* a handle_message whose chain loop has no `except` around the handler call
Catches_single_only(where) == where = "single"

\* `except Exception` around the handler call: of a single command
\* (engine.py:140-142) and of a chain stage (engine.py:206-211).  What is not
\* caught leaves handle_message as an exception.
Catches(where) == where \in {"single", "chain"}

\* a loop that leaves a failed stage with `break` in every chain
BreaksOnFailure_always(chain_type) == TRUE

\* a loop that never leaves a failed stage with `break`
BreaksOnFailure_never(chain_type) == FALSE

\* the loop leaves a failed stage with `break` exactly in a pipe chain
\* (engine.py:210-211)
BreaksOnFailure(chain_type) == chain_type = "pipe"

\* a loop that goes on while the handler it called is still running
StageMayStart_unawaited(p) == p \in {"chain_loop", "handler"}

\* the stage after idx is entered only once the awaited handler of idx has
\* returned or raised (engine.py:197, 235-237)
StageMayStart(p) == p = "chain_loop"

\* a pipe that returns its first result block instead of its last
FormatChain_first(chain_type, rs) ==
    IF chain_type = "pipe"
    THEN IF rs # <<>> THEN rs[1] ELSE <<"No output">>
    ELSE IF Len(rs) = 1 THEN rs[1] ELSE Join(rs)

\* the value _handle_chain returns (engine.py:214-221)
FormatChain(chain_type, rs) ==
    IF chain_type = "pipe"
    THEN IF rs # <<>> THEN rs[Len(rs)] ELSE <<"No output">>
    ELSE IF Len(rs) = 1 THEN rs[1] ELSE Join(rs)

\* The texts sent to handle_message: up to MaxStages commands joined by one
\* delimiter, and a command followed by a dangling delimiter.
W_xyzzy == <<"x","y","z","z","y">>
Commands == { W_crawl \o <<SP, "x">>, W_summarize, W_summarize \o <<SP, "y">>, W_xyzzy }
Delimiters == { <<SP, "|", SP>>, <<";", SP>> }

MaxStages == 3

RECURSIVE JoinWith(_, _)
JoinWith(cs, d) ==
    IF Len(cs) = 1 THEN cs[1] ELSE cs[1] \o d \o JoinWith(Tail(cs), d)

RECURSIVE CommandSeqs(_)
CommandSeqs(n) ==
    IF n = 1 THEN { <<c>> : c \in Commands }
    ELSE LET shorter == CommandSeqs(n - 1) IN
         shorter \cup { Append(cs, c) : cs \in { q \in shorter : Len(q) = n - 1 }, c \in Commands }

EngineTexts ==
    { JoinWith(cs, d) : cs \in CommandSeqs(MaxStages), d \in Delimiters }
        \cup { c \o d : c \in Commands, d \in Delimiters }

\* what a handler returns for stage i: nothing, or a text of its own
Outputs(i) == { <<>>, <<"o","u","t", ToString(i)>> }
Boom == <<"boom">>

EngineUser == "alice"

\* the engine builds CommandParser() without memory (engine.py:48)
InitEngine ==
    /\ pc = "idle"
    /\ text \in EngineTexts
    /\ detected = None
    /\ segments = <<>>
    /\ split_type = None
    /\ ParserStart(FALSE)
    /\ actions \in { {"crawl", "summarize"}, {"summarize"} }
    /\ chain = NoChain
    /\ idx = 0
    /\ results = <<>>
    /\ previous_output = NoOutput
    /\ call = NoHandlerCall
    /\ events = <<>>
    /\ stored = <<>>
    /\ response = <<>>

Event(kind, stage, out, params) == [kind |-> kind, stage |-> stage, out |-> out, params |-> params]

\* handle_message, a chain: is_chain(text) holds and _handle_chain parses the
\* chain (engine.py:114-115, 163-167)
HandleChain ==
    /\ pc = "idle"
    /\ is_chain(text)
    /\ detected' = detect_chain(text)
    /\ chain' = parse_chain(intents, learned_patterns_cache, text, EngineUser)
    /\ idx' = 1
    /\ results' = <<>>
    /\ previous_output' = NoOutput
    /\ pc' = "chain_loop"
    /\ UNCHANGED <<webhookVars, shellVars, catalogVars, text, segments, split_type, parserVars, actions, call, events, stored, response>>

\* handle_message, a single command with a handler: parse, store_message and
\* the call of the handler (engine.py:118-138)
HandleSingleInvoke ==
    /\ pc = "idle"
    /\ ~is_chain(text)
    /\ LET cmd == parse(intents, learned_patterns_cache, text, EngineUser) IN
        /\ cmd.intent # None /\ cmd.intent \in actions
        /\ chain' = [commands |-> <<cmd>>, chain_type |-> "none"]
        /\ stored' = Append(stored, text)
        /\ call' = [stage |-> 1, action |-> cmd.intent, params |-> cmd.params]
        /\ events' = Append(events, Event("start", 1, <<>>, cmd.params))
    /\ pc' = "single_handler"
    /\ UNCHANGED <<webhookVars, shellVars, catalogVars, chainVars, parserVars, actions, idx, results, previous_output, response>>

\* handle_message, a single command without a handler (engine.py:145-148)
HandleSingleNoAction ==
    /\ pc = "idle"
    /\ ~is_chain(text)
    /\ LET cmd == parse(intents, learned_patterns_cache, text, EngineUser) IN
        /\ ~(cmd.intent # None /\ cmd.intent \in actions)
        /\ chain' = [commands |-> <<cmd>>, chain_type |-> "none"]
        /\ stored' = Append(stored, text)
        /\ response' = IF cmd.intent # None THEN NotConfigured(cmd.intent) ELSE DidNotUnderstand
    /\ pc' = "done"
    /\ UNCHANGED <<webhookVars, shellVars, catalogVars, chainVars, parserVars, actions, idx, results, previous_output, call, events>>

\* the handler of a single command returns (engine.py:139)
SingleReturn(out) ==
    /\ pc = "single_handler"
    /\ response' = out
    /\ events' = Append(events, Event("return", 1, out, call.params))
    /\ call' = NoHandlerCall
    /\ pc' = "done"
    /\ UNCHANGED <<webhookVars, shellVars, catalogVars, chainVars, parserVars, actions, chain, idx, results, previous_output, stored>>

\* the handler of a single command raises (engine.py:140-142)
SingleRaise ==
    /\ pc = "single_handler"
    /\ response' = IF Catches("single") THEN ActionFailed(Boom) ELSE response
    /\ events' = Append(events, Event("raise", 1, Boom, call.params))
    /\ call' = NoHandlerCall
    /\ pc' = IF Catches("single") THEN "done" ELSE "raised"
    /\ UNCHANGED <<webhookVars, shellVars, catalogVars, chainVars, parserVars, actions, chain, idx, results, previous_output, stored>>

\* a stage without intent (engine.py:171-181)
StageNotUnderstood ==
    /\ StageMayStart(pc)
    /\ idx \in DOMAIN chain.commands
    /\ chain.commands[idx].intent = None
    /\ stored' = Append(stored, chain.commands[idx].raw_text)
    /\ results' = Append(results, CouldNotUnderstand(idx, chain.commands[idx].raw_text))
    /\ events' = Append(events, Event("not_understood", idx, <<>>, EmptyDict))
    /\ idx' = idx + 1
    /\ UNCHANGED <<webhookVars, shellVars, catalogVars, pc, chainVars, parserVars, actions, chain, previous_output, call, response>>

\* a stage whose intent has no handler (engine.py:171-185)
StageUnknownAction ==
    /\ StageMayStart(pc)
    /\ idx \in DOMAIN chain.commands
    /\ chain.commands[idx].intent # None
    /\ chain.commands[idx].intent \notin actions
    /\ stored' = Append(stored, chain.commands[idx].raw_text)
    /\ results' = Append(results, UnknownAction(idx, chain.commands[idx].intent))
    /\ events' = Append(events, Event("unknown_action", idx, <<>>, EmptyDict))
    /\ idx' = idx + 1
    /\ UNCHANGED <<webhookVars, shellVars, catalogVars, pc, chainVars, parserVars, actions, chain, previous_output, call, response>>

\* a stage whose handler is called (engine.py:171-202)
StageInvoke ==
    /\ StageMayStart(pc)
    /\ idx \in DOMAIN chain.commands
    /\ chain.commands[idx].intent # None
    /\ chain.commands[idx].intent \in actions
    /\ stored' = Append(stored, chain.commands[idx].raw_text)
    /\ LET params == StageParams(chain.chain_type, chain.commands[idx], previous_output) IN
        /\ call' = [stage |-> idx, action |-> chain.commands[idx].intent, params |-> params]
        /\ events' = Append(events, Event("start", idx, previous_output, params))
        /\ chain' = [chain EXCEPT !.commands[idx] = CommandAfterInjection(@, params)]
    /\ pc' = "handler"
    /\ UNCHANGED <<webhookVars, shellVars, catalogVars, chainVars, parserVars, actions, idx, results, previous_output, response>>

\* the awaited handler returns (engine.py:203-204)
HandlerReturn(out) ==
    /\ pc = "handler"
    /\ previous_output' = out
    /\ results' = Append(results, out)
    /\ events' = Append(events, Event("return", call.stage, out, call.params))
    /\ call' = NoHandlerCall
    /\ idx' = call.stage + 1
    /\ pc' = "chain_loop"
    /\ UNCHANGED <<webhookVars, shellVars, catalogVars, chainVars, parserVars, actions, chain, stored, response>>

\* the awaited handler raises (engine.py:206-211)
HandlerRaise ==
    /\ pc = "handler"
    /\ results' = IF Catches("chain") THEN Append(results, Failed(call.stage, Boom)) ELSE results
    /\ events' = Append(events, Event("raise", call.stage, Boom, call.params))
    /\ call' = NoHandlerCall
    /\ idx' = call.stage + 1
    /\ pc' = IF ~Catches("chain") THEN "raised"
             ELSE IF BreaksOnFailure(chain.chain_type) THEN "format" ELSE "chain_loop"
    /\ UNCHANGED <<webhookVars, shellVars, catalogVars, chainVars, parserVars, actions, chain, previous_output, stored, response>>

\* the loop is over: the result is formatted and returned (engine.py:213-221)
ChainFormat ==
    /\ \/ pc = "format"
       \/ pc = "chain_loop" /\ idx > Len(chain.commands)
    /\ response' = FormatChain(chain.chain_type, results)
    /\ pc' = "done"
    /\ UNCHANGED <<webhookVars, shellVars, catalogVars, chainVars, parserVars, actions, chain, idx, results, previous_output,
                   call, events, stored>>

NextEngine ==
    \/ HandleChain
    \/ HandleSingleInvoke
    \/ HandleSingleNoAction
    \/ \E out \in Outputs(1) : SingleReturn(out)
    \/ SingleRaise
    \/ StageNotUnderstood
    \/ StageUnknownAction
    \/ StageInvoke
    \/ \E out \in Outputs(call.stage) : HandlerReturn(out)
    \/ HandlerRaise
    \/ ChainFormat

SpecEngine == InitEngine /\ [][NextEngine]_vars

(***************************************************************************)
(* Chain detection and splitting as a state machine over input texts.      *)
(***************************************************************************)
\* The texts are concatenations of at most MaxPieces of these pieces.
Pieces == { <<"l","s">>, <<SP>>, <<"|">>, <<"-",">">>, <<";">>,
            <<SP,"a","n","d">>, <<SP,"T","h","e","n",SP>>, <<"t","h","e","n">> }

MaxPieces == 4

RECURSIVE PieceSeqs(_)
PieceSeqs(n) ==
    IF n = 0 THEN { <<>> }
    ELSE LET shorter == PieceSeqs(n - 1) IN
         shorter \cup { Append(ps, p) : ps \in { q \in shorter : Len(q) = n - 1 }, p \in Pieces }

ChainTexts == { Flatten(ps) : ps \in PieceSeqs(MaxPieces) }

InitChain ==
    /\ pc = "input"
    /\ text \in ChainTexts
    /\ detected = None
    /\ segments = <<>>
    /\ split_type = None
    /\ ParserIdle
    /\ EngineIdle

\* is_chain(text), as handle_message calls it first (engine.py:114)
DetectChain ==
    /\ pc = "input"
    /\ detected' = detect_chain(text)
    /\ pc' = "detected"
    /\ UNCHANGED <<webhookVars, shellVars, catalogVars, text, segments, split_type, parserVars, engineVars>>

\* _split_chain(text), as parse_chain calls it (parser.py:843)
SplitChain ==
    /\ pc = "detected"
    /\ segments' = split_chain(text)[1]
    /\ split_type' = split_chain(text)[2]
    /\ pc' = "split"
    /\ UNCHANGED <<webhookVars, shellVars, catalogVars, text, detected, parserVars, engineVars>>

NextChain == DetectChain \/ SplitChain

SpecChain == InitChain /\ [][NextChain]_vars


(***************************************************************************)
(* The Intent Catalog and the language packs.                              *)
(***************************************************************************)
W_ayuda == <<"a","y","u","d","a">>
W_resumen == <<"r","e","s","u","m","e","n">>
W_en_resumen == <<"e","n",SP>> \o W_resumen
W_clima == <<"c","l","i","m","a">>
W_hilfe == <<"h","i","l","f","e">>
W_links == <<"l","i","n","k","s">>
W_weather == <<"w","e","a","t","h","e","r">>
W_assist == <<"a","s","s","i","s","t">>

\* LANGUAGE_PACK: language -> intent -> keywords and phrases
LANGUAGE_PACK ==
    [lang \in {"es", "de"} |->
        IF lang = "es"
        THEN [name \in {"weather", "summarize", "help"} |->
                IF name = "weather" THEN [keywords |-> <<W_clima>>, phrases |-> <<>>]
                ELSE IF name = "summarize"
                THEN [keywords |-> <<W_resumen>>, phrases |-> <<W_en_resumen>>]
                ELSE [keywords |-> <<W_ayuda>>, phrases |-> <<>>]]
        ELSE [name \in {"crawl", "help"} |->
                IF name = "crawl" THEN [keywords |-> <<W_links>>, phrases |-> <<>>]
                ELSE [keywords |-> <<W_hilfe>>, phrases |-> <<>>]]]

\* get_language_pack: LANGUAGE_PACK.get(lang) is not None
get_language_pack(lang) == lang \in DOMAIN LANGUAGE_PACK

\* get_keywords_for_intent
get_keywords_for_intent(lang, name) ==
    IF ~get_language_pack(lang) THEN <<>>
    ELSE IF name \notin DOMAIN LANGUAGE_PACK[lang] THEN <<>>
    ELSE LANGUAGE_PACK[lang][name].keywords

\* get_phrases_for_intent
get_phrases_for_intent(lang, name) ==
    IF ~get_language_pack(lang) THEN <<>>
    ELSE IF name \notin DOMAIN LANGUAGE_PACK[lang] THEN <<>>
    ELSE LANGUAGE_PACK[lang][name].phrases

\* the parser's catalog state: [intents, loaded]
CatalogState(catalog, loaded) == [intents |-> catalog, loaded |-> loaded]

\* a merge that puts the language's entries in the place of the existing ones
merge_language_replacing(entry, lang) ==
    IF get_keywords_for_intent(lang, entry.intent) = <<>> THEN entry
    ELSE [entry EXCEPT !.keywords = get_keywords_for_intent(lang, entry.intent)
                                        \o get_phrases_for_intent(lang, entry.intent)]

\* the merge of one language into one intent: the language's keywords and
\* phrases are appended onto the intent's existing keywords
merge_language(entry, lang) ==
    [entry EXCEPT !.keywords = @ \o get_keywords_for_intent(lang, entry.intent)
                                 \o get_phrases_for_intent(lang, entry.intent)]

\* a load_language that does not look at the languages already loaded
load_language_again(st, lang) ==
    IF lang = "en" \/ ~get_language_pack(lang)
    THEN st
    ELSE CatalogState([i \in DOMAIN st.intents |-> merge_language(st.intents[i], lang)],
                      Append(st.loaded, lang))

\* CommandParser.load_language: the base language, a loaded language and an
\* unsupported language change nothing
load_language(st, lang) ==
    IF lang = "en" \/ (\E i \in DOMAIN st.loaded : st.loaded[i] = lang) \/ ~get_language_pack(lang)
    THEN st
    ELSE CatalogState([i \in DOMAIN st.intents |-> merge_language(st.intents[i], lang)],
                      Append(st.loaded, lang))

\* CommandParser.load_languages: load_language for each code, in order
RECURSIVE load_languages(_, _)
load_languages(st, langs) ==
    IF langs = <<>> THEN st
    ELSE load_languages(load_language(st, Head(langs)), Tail(langs))

\* CommandParser.get_loaded_languages: the base language is always listed
get_loaded_languages(loaded) == <<"en">> \o loaded

Languages == {"en", "es", "de", "xx"}
LanguageLists == { <<"es", "de">>, <<"de", "xx", "de">> }

\* intents a plugin registers: a new one, and a replacement of "help"
PluginIntents == {
    [intent |-> "weather", keywords |-> <<W_weather>>,
     patterns |-> << [kind |-> "arg", lit |-> W_weather] >>, examples |-> <<>>,
     slots |-> <<"location">>],
    [intent |-> "help", keywords |-> <<W_assist>>,
     patterns |-> << [kind |-> "full", lit |-> W_assist] >>, examples |-> << W_assist >>,
     slots |-> <<>>] }

W_lights == <<"l","i","g","h","t","s">>
\* an example of the smarthome plugin (smarthome.py:39)
E_turn_on_lights == <<"t","u","r","n",SP,"o","n",SP,"l","i","v","i","n","g",SP,"r","o","o","m",SP,"l","i","g","h","t","s">>

\* PluginInfo of the plugins that can be loaded: one with keywords and
\* patterns, one that takes the name of a built-in intent, one with neither
PluginInfos == {
    [name |-> "smarthome", keywords |-> <<W_lights>>,
     patterns |-> << [kind |-> "arg", lit |-> W_lights] >>, examples |-> << E_turn_on_lights >>],
    [name |-> "help", keywords |-> <<W_assist>>, patterns |-> <<>>, examples |-> << W_assist >>],
    [name |-> "quiet", keywords |-> <<>>, patterns |-> <<>>, examples |-> <<>>] }

\* BasePlugin.get_intent_pattern, made an IntentPattern by load_plugin
\* (base.py, loader.py:131-140)
get_intent_pattern(info) ==
    IF info.keywords = <<>> /\ info.patterns = <<>> THEN NoIntentPattern
    ELSE [intent |-> info.name, keywords |-> info.keywords,
          patterns |-> info.patterns, examples |-> info.examples, slots |-> <<>>]

\* what a plugin load or unload works on: PluginLoader.plugins, the parser's
\* catalog and the engine's actions
LoaderState(loaded, catalog, acts) == [plugins |-> loaded, intents |-> catalog, actions |-> acts]

\* the catalog without the intent of a name
Unregistered(catalog, name) == SelectSeq(catalog, LAMBDA d : d.intent # name)

\* an unload that takes the plugin's intent and action with it
unload_plugin_unregistering(st, name) ==
    IF name \notin st.plugins THEN st
    ELSE LoaderState(st.plugins \ {name}, Unregistered(st.intents, name), st.actions \ {name})

\* PluginLoader.unload_plugin: the plugin leaves PluginLoader.plugins, and
\* nothing is taken from the parser or the engine
unload_plugin(st, name) ==
    IF name \notin st.plugins THEN st
    ELSE [st EXCEPT !.plugins = @ \ {name}]

CatalogTexts == { W_ayuda, W_hilfe, W_clima, W_help, W_assist }

\* the number of catalog operations in a run
MaxLoads == 3

InitCatalog ==
    /\ pc = "catalog"
    /\ ChainIdle
    /\ EngineIdle
    /\ ParserStart(FALSE)

LoadLanguage(lang) ==
    /\ n_calls < MaxLoads
    /\ n_calls' = n_calls + 1
    /\ LET st == load_language(CatalogState(intents, loaded_languages), lang) IN
        /\ intents' = st.intents
        /\ loaded_languages' = st.loaded
    /\ requested' = Append(requested, lang)
    /\ op' = "load_language"
    /\ parsed' = NoCall
    /\ UNCHANGED <<webhookVars, shellVars, pc, chainVars, engineVars, has_memory, learned_patterns_cache, store,
                   learning, loading, corrected, plugins, registered>>

LoadLanguages(langs) ==
    /\ n_calls < MaxLoads
    /\ n_calls' = n_calls + 1
    /\ LET st == load_languages(CatalogState(intents, loaded_languages), langs) IN
        /\ intents' = st.intents
        /\ loaded_languages' = st.loaded
    /\ requested' = requested \o langs
    /\ op' = "load_languages"
    /\ parsed' = NoCall
    /\ UNCHANGED <<webhookVars, shellVars, pc, chainVars, engineVars, has_memory, learned_patterns_cache, store,
                   learning, loading, corrected, plugins, registered>>

RegisterIntent(pattern) ==
    /\ n_calls < MaxLoads
    /\ n_calls' = n_calls + 1
    /\ intents' = register_intent(intents, pattern)
    /\ registered' = pattern
    /\ op' = "register_intent"
    /\ parsed' = NoCall
    /\ UNCHANGED <<webhookVars, shellVars, pc, chainVars, engineVars, has_memory, learned_patterns_cache, store,
                   learning, loading, corrected, loaded_languages, requested, plugins>>

\* PluginLoader.load_plugin from the instantiation on (loader.py:121-141):
\* the action is registered, then the intent pattern if the plugin has one
LoadPlugin(info) ==
    /\ n_calls < MaxLoads
    /\ n_calls' = n_calls + 1
    /\ actions' = actions \cup {info.name}
    /\ IF get_intent_pattern(info) # NoIntentPattern
       THEN /\ intents' = register_intent(intents, get_intent_pattern(info))
            /\ registered' = get_intent_pattern(info)
       ELSE UNCHANGED <<intents, registered>>
    /\ plugins' = plugins \cup {info.name}
    /\ op' = IF get_intent_pattern(info) # NoIntentPattern
             THEN "load_plugin" ELSE "load_plugin_no_intent"
    /\ parsed' = NoCall
    /\ UNCHANGED <<webhookVars, shellVars, pc, chainVars, chain, idx, results, previous_output, call, events, stored,
                   response, has_memory, learned_patterns_cache, store, learning, loading,
                   corrected, loaded_languages, requested>>

\* PluginLoader.load_plugin that gives up: no file, no plugin class, or an
\* exception (loader.py:90-92, 116-118, 146-148)
\* (late: get_intent_pattern raises, after register_action at loader.py:128)
LoadPluginFails(info, late) ==
    /\ n_calls < MaxLoads
    /\ n_calls' = n_calls + 1
    /\ actions' = IF late THEN actions \cup {info.name} ELSE actions
    /\ op' = "load_plugin_failed"
    /\ parsed' = NoCall
    /\ UNCHANGED <<webhookVars, shellVars, pc, chainVars, chain, idx, results, previous_output, call, events, stored,
                   response, intents, has_memory, learned_patterns_cache, store, learning,
                   loading, corrected, loaded_languages, requested, plugins, registered>>

\* PluginLoader.unload_plugin (loader.py:150-163)
UnloadPlugin(name) ==
    /\ n_calls < MaxLoads
    /\ n_calls' = n_calls + 1
    /\ LET st == unload_plugin(LoaderState(plugins, intents, actions), name) IN
        /\ plugins' = st.plugins
        /\ intents' = st.intents
        /\ actions' = st.actions
    /\ op' = "unload_plugin"
    /\ parsed' = NoCall
    /\ UNCHANGED <<webhookVars, shellVars, pc, chainVars, chain, idx, results, previous_output, call, events, stored,
                   response, has_memory, learned_patterns_cache, store, learning, loading,
                   corrected, loaded_languages, requested, registered>>

\* parse(text) on the catalog as it is now
ParseLoaded(t) ==
    /\ ~parsed.called
    /\ parsed' = [called |-> TRUE, text |-> t, user_id |-> None,
                  result |-> parse(intents, learned_patterns_cache, t, None)]
    /\ op' = "parse"
    /\ UNCHANGED <<webhookVars, shellVars, pc, chainVars, engineVars, intents, has_memory, learned_patterns_cache,
                   store, learning, loading, n_calls, corrected, loaded_languages,
                   requested, plugins, registered>>

NextCatalog ==
    \/ \E lang \in Languages : LoadLanguage(lang)
    \/ \E langs \in LanguageLists : LoadLanguages(langs)
    \/ \E pattern \in PluginIntents : RegisterIntent(pattern)
    \/ \E t \in CatalogTexts : ParseLoaded(t)

SpecCatalog == InitCatalog /\ [][NextCatalog]_vars

\* parse(text) of the k-th example of the i-th intent of the catalog
ParseExample(i, k) ==
    /\ ~parsed.called
    /\ i \in DOMAIN intents
    /\ k \in DOMAIN intents[i].examples
    /\ parsed' = [called |-> TRUE, text |-> intents[i].examples[k], user_id |-> None,
                  result |-> parse(intents, learned_patterns_cache,
                                   intents[i].examples[k], None)]
    /\ op' = "parse_example"
    /\ UNCHANGED <<webhookVars, shellVars, pc, chainVars, engineVars, intents, has_memory, learned_patterns_cache,
                   store, learning, loading, n_calls, corrected, loaded_languages,
                   requested, plugins, registered>>

\* the most intents a catalog has here, and the most examples an intent has
MaxIntents == Len(default_intents) + 2
MaxExamples == 1

\* the parser of an engine and its plugin loader: intents are registered,
\* plugins are loaded and unloaded, and the examples of the intents are parsed
NextPlugins ==
    \/ \E i \in 1..MaxIntents, k \in 1..MaxExamples : ParseExample(i, k)
    \/ \E pattern \in PluginIntents : RegisterIntent(pattern)
    \/ \E info \in PluginInfos : LoadPlugin(info)
    \/ \E info \in PluginInfos, late \in BOOLEAN : LoadPluginFails(info, late)
    \/ \E info \in PluginInfos : UnloadPlugin(info.name)

SpecPlugins == InitCatalog /\ [][NextPlugins]_vars

(***************************************************************************)
(* The shell action (actions/shell.py): the safety check of a command and  *)
(* its execution by the system shell.                                      *)
(***************************************************************************)
\* the names of the commands of the texts here, and the word of each
CommandNames == {"ls", "echo", "rm", "sh", "bash", "zsh", "dash"}
CommandWord(c) ==
    CASE c = "ls" -> <<"l","s">> [] c = "echo" -> <<"e","c","h","o">> [] c = "rm" -> <<"r","m">> [] c = "sh" -> <<"s","h">>
      [] c = "bash" -> <<"b","a","s","h">> [] c = "zsh" -> <<"z","s","h">> [] c = "dash" -> <<"d","a","s","h">>

B_RM_ROOT == <<"r","m",SP,"-","r","f",SP,"/">>
B_PIPE_SH == <<"|",SP,"s","h">>
B_PIPE_BASH == <<"|",SP,"b","a","s","h">>
B_EVAL == <<"e","v","a","l",SP>>

ShellOperators == { <<";">>, <<"|">>, <<"&","&">> }

\* allowed_commands: none, and a list without interpreters
Allowlists == { {}, {"ls", "echo"} }

\* the commands execute is called with
ShellCommands == {
    <<>>,
    <<SP>>,
    <<"l","s",SP,"-","l","a">>,
    <<"e","c","h","o",SP,SP,"h","i">>,
    <<"r","m",SP,"x">>,
    <<"b","a","s","h",SP,"-","c",SP,"h","i">>,
    <<"s","h",SP,"-","c",SP,"h","i">>,
    <<"z","s","h">>,
    <<"d","a","s","h",SP,"x">>,
    <<"l","s",SP,";",SP,"b","a","s","h",SP,"-","c",SP,"h","i">>,
    <<"e","c","h","o",SP,"h","i",SP,"|",SP,"s","h">> }

\* BLOCKED_COMMANDS, the entries the commands below can hit (shell.py:30-52)
BLOCKED_COMMANDS == { B_RM_ROOT, B_PIPE_SH, B_PIPE_BASH, B_EVAL }

\* re.sub(r'\s+', ' ', cmd): the words joined by one space
RECURSIVE JoinWords(_)
JoinWords(ws) ==
    IF ws = <<>> THEN <<>>
    ELSE IF Len(ws) = 1 THEN ws[1]
    ELSE ws[1] \o <<SP>> \o JoinWords(Tail(ws))

\* ShellAction._normalize_command (shell.py:89-95)
normalize_command(command) == JoinWords(SplitWords(Strip(Lower(command))))

\* the word of a command as a name
NameOf(w) ==
    IF \E c \in CommandNames : CommandWord(c) = w
    THEN CHOOSE c \in CommandNames : CommandWord(c) = w
    ELSE "other"

Safe == [safe |-> TRUE, raised |-> FALSE, reason |-> ""]
Unsafe(reason) == [safe |-> FALSE, raised |-> FALSE, reason |-> reason]
\* shlex.split(command)[0] of a command of whitespace: IndexError
SafeRaises == [safe |-> FALSE, raised |-> TRUE, reason |-> "IndexError"]

\* ShellAction._is_safe (shell.py:97-131): the blocklist on the normalized
\* command, then the allowlist, when there is one, on the first word of the
\* command as it was given.  `sandboxed` is not read.
is_safe(action, command) ==
    IF \E b \in BLOCKED_COMMANDS : Contains(b, normalize_command(command))
    THEN Unsafe("Blocked command pattern")
    ELSE IF action.allowed_commands # {}
    THEN IF SplitWords(command) = <<>> THEN SafeRaises
         ELSE IF NameOf(SplitWords(command)[1]) \notin action.allowed_commands
         THEN Unsafe("Command not in allowlist")
         ELSE Safe
    ELSE Safe

\* what the system shell runs for a command line (create_subprocess_shell,
\* shell.py:155-159): the first word of every simple command, the simple
\* commands being separated by the words ; | and &&
RECURSIVE ExecutablesFrom(_, _)
ExecutablesFrom(ws, first) ==
    IF ws = <<>> THEN {}
    ELSE IF Head(ws) \in ShellOperators THEN ExecutablesFrom(Tail(ws), TRUE)
    ELSE (IF first THEN {NameOf(Head(ws))} ELSE {}) \cup ExecutablesFrom(Tail(ws), FALSE)

Executables(command) == ExecutablesFrom(SplitWords(command), TRUE)

\* the number of execute calls in a run
MaxExecutes == 2

InitShell ==
    /\ pc = "shell"
    /\ ChainIdle
    /\ EngineIdle
    /\ ParserStart(FALSE)

\* ShellAction(...) is built with its settings
Configure(enabled, sandboxed, allowed_commands) ==
    /\ pc = "shell"
    /\ ~shell.running
    /\ n_calls = 0
    /\ shell.result = NoResult
    /\ shell # ShellAction(enabled, sandboxed, allowed_commands)
    /\ shell' = ShellAction(enabled, sandboxed, allowed_commands)
    /\ UNCHANGED <<webhookVars, pc, chainVars, parserVars, engineVars, catalogVars>>

\* execute that returns before the process: the action is disabled, there
\* is no command, or the command is blocked (shell.py:141-151)
ExecuteRefused(command) ==
    /\ pc = "shell"
    /\ ~shell.running
    /\ n_calls < MaxExecutes
    /\ \/ ~shell.enabled
       \/ command = <<>>
       \/ ~is_safe(shell, command).safe
    /\ shell' = [shell EXCEPT
            !.command = command,
            !.started = {},
            !.result =
                IF ~shell.enabled THEN [kind |-> "disabled", reason |-> ""]
                ELSE IF command = <<>> THEN [kind |-> "no_command", reason |-> ""]
                ELSE IF is_safe(shell, command).raised
                THEN [kind |-> "raised", reason |-> is_safe(shell, command).reason]
                ELSE [kind |-> "blocked", reason |-> is_safe(shell, command).reason]]
    /\ n_calls' = n_calls + 1
    /\ UNCHANGED <<webhookVars, pc, chainVars, engineVars, catalogVars, intents, has_memory,
                   learned_patterns_cache, store, learning, loading, parsed, corrected>>

\* execute that starts the process: the system shell runs the command line
\* (shell.py:153-159)
ExecuteStart(command) ==
    /\ pc = "shell"
    /\ ~shell.running
    /\ n_calls < MaxExecutes
    /\ shell.enabled
    /\ command # <<>>
    /\ is_safe(shell, command).safe
    /\ shell' = [shell EXCEPT !.command = command, !.running = TRUE,
                              !.started = Executables(command), !.result = NoResult]
    /\ n_calls' = n_calls + 1
    /\ UNCHANGED <<webhookVars, pc, chainVars, engineVars, catalogVars, intents, has_memory,
                   learned_patterns_cache, store, learning, loading, parsed, corrected>>

\* the process ends, is killed at the timeout, or fails (shell.py:161-191)
ProcessEnds(kind) ==
    /\ pc = "shell"
    /\ shell.running
    /\ shell' = [shell EXCEPT !.running = FALSE, !.result = [kind |-> kind, reason |-> ""]]
    /\ UNCHANGED <<webhookVars, pc, chainVars, parserVars, engineVars, catalogVars>>

NextShell ==
    \/ \E enabled \in BOOLEAN, sandboxed \in BOOLEAN, allowed \in Allowlists :
        Configure(enabled, sandboxed, allowed)
    \/ \E command \in ShellCommands : ExecuteRefused(command)
    \/ \E command \in ShellCommands : ExecuteStart(command)
    \/ \E kind \in {"output", "timeout", "error"} : ProcessEnds(kind)

SpecShell == InitShell /\ [][NextShell]_vars


(***************************************************************************)
(* Properties of the parser: parse, the learned corrections (Spec).        *)
(***************************************************************************)
\* the key learn_correction and parse compare: the trimmed, lower-cased text
Normalized(t) == Strip(Lower(t))

\* C1: after learn_correction(user, P, I, params) has been applied, every
\* later parse(text, user) by the same user whose trimmed, lower-cased text
\* equals the normalized phrase P returns intent I with confidence 0.98.
C1_LearnedCorrectionWins ==
    (/\ parsed.called
     /\ parsed.user_id \in Users
     /\ Normalized(parsed.text) \in DOMAIN corrected[parsed.user_id])
    => /\ parsed.result.intent = corrected[parsed.user_id][Normalized(parsed.text)]
       /\ parsed.result.confidence = LEARNED_CONFIDENCE

\* C8: every intent name parse returns is a name registered in the Intent
\* Catalog at match time (a learned pattern whose intent is not in the
\* catalog is skipped, never returned).
C8_ReturnedIntentRegistered ==
    (parsed.called /\ parsed.result.intent # None)
    => Registered(intents, parsed.result.intent)

PhraseMatched(phrase_match) ==
    phrase_match.intent # None /\ GE(phrase_match.score, PHRASE_FLOOR)

\* what the priority order learned > phrase > keyword/regex asks of a result
StrategyOrder(result, learned_match, phrase_match, best_match) ==
    /\ learned_match # NoPattern
        => /\ result.intent = learned_match.intent
           /\ result.confidence = LEARNED_CONFIDENCE
    /\ (learned_match = NoPattern /\ PhraseMatched(phrase_match))
        => /\ result.intent = phrase_match.intent
           /\ result.confidence = phrase_match.score
    /\ (learned_match = NoPattern /\ ~PhraseMatched(phrase_match) /\ best_match.intent # None)
        => /\ result.intent = best_match.intent
           /\ result.confidence = best_match.score
    /\ (learned_match = NoPattern /\ ~PhraseMatched(phrase_match) /\ best_match.intent = None)
        => result.intent = None

\* the three strategies disagree on the text, and the learned one matched
StrategiesDisagree(learned_match, phrase_match, best_match) ==
    /\ learned_match # NoPattern
    /\ PhraseMatched(phrase_match)
    /\ best_match.intent # None
    /\ learned_match.intent # phrase_match.intent
    /\ phrase_match.intent # best_match.intent
    /\ learned_match.intent # best_match.intent

\* C9: parse applies the strategies in the strict priority order learned
\* pattern, phrase variation, keyword/regex: a later strategy decides the
\* intent only when every earlier strategy produced no match.
C9_StrategyPriority ==
    (parsed.called /\ Strip(parsed.text) # <<>>)
    => StrategyOrder(parsed.result,
                     learned_lookup(learned_patterns_cache, Lower(Strip(parsed.text)), parsed.user_id),
                     match_phrase_variations(intents, Lower(Strip(parsed.text))),
                     match_keywords(intents, Lower(Strip(parsed.text))))

\* a parse on which the learned, the phrase and the keyword strategy each
\* name another intent, and the learned one is returned
C9_LearnedOverridesBoth ==
    /\ parsed.called
    /\ Strip(parsed.text) # <<>>
    /\ StrategiesDisagree(
            learned_lookup(learned_patterns_cache, Lower(Strip(parsed.text)), parsed.user_id),
            match_phrase_variations(intents, Lower(Strip(parsed.text))),
            match_keywords(intents, Lower(Strip(parsed.text))))
    /\ parsed.result.confidence = LEARNED_CONFIDENCE

(***************************************************************************)
(* Properties of chain detection and splitting (SpecChain).                *)
(***************************************************************************)
\* C2: for every input text, is_chain(text) is true if and only if
\* _split_chain(text) returns more than one non-empty segment.
C2_IsChainIffSplits ==
    pc = "split" => ((detected # None) <=> Len(segments) > 1)

(***************************************************************************)
(* Properties of the chain executor (SpecEngine).                          *)
(***************************************************************************)
\* a stage is over: its handler returned or raised, or it was skipped
Terminal(e) == e.kind # "start"
Finished == SelectSeq(events, Terminal)

\* the result block of a stage that is over
BlockOf(e) ==
    IF e.kind = "return" THEN e.out
    ELSE IF e.kind = "raise"
    THEN <<"[", ToString(e.stage), "] Failed: ">> \o e.out
    ELSE IF e.kind = "unknown_action"
    THEN <<"[", ToString(e.stage), "] Unknown action: ", chain.commands[e.stage].intent>>
    ELSE <<"[", ToString(e.stage), "] Could not understand: ">> \o chain.commands[e.stage].raw_text

PipeDone == pc = "done" /\ chain.chain_type = "pipe"
SequenceDone == pc = "done" /\ chain.chain_type = "sequence"

Returns == { k \in DOMAIN events : events[k].kind = "return" }
LastReturn == CHOOSE k \in Returns : \A m \in Returns : m <= k

\* C3 as stated: for a pipe chain, the result _handle_chain returns equals
\* the output of the last stage whose handler executed successfully.
C3_PipeResultIsLastSuccess ==
    (PipeDone /\ Returns # {}) => response = events[LastReturn].out

\* C3: for a pipe chain, the result _handle_chain returns is the last result
\* block: the output of the last stage whose handler executed successfully
\* when no later stage failed or was skipped, and otherwise the error block
\* of the last stage processed.
C3_PipeResultIsLastBlock ==
    PipeDone
    => /\ events # <<>>
       /\ Terminal(events[Len(events)])
       /\ response = BlockOf(events[Len(events)])
       /\ events[Len(events)].kind = "return" => response = events[LastReturn].out

\* a pipe whose first stages succeeded and whose last processed stage raised
C3_FailureAfterSuccess ==
    /\ PipeDone
    /\ Returns # {}
    /\ events[Len(events)].kind = "raise"
    /\ response # events[LastReturn].out

\* C4: for a sequence chain of N parsed segments every segment is processed
\* regardless of earlier failures and contributes exactly one result block:
\* the aggregate holds N blocks in segment order, a failed, unknown or
\* not-understood stage appearing as an error block at its own position.
C4_SequenceBlocks ==
    SequenceDone
    => /\ Len(results) = Len(chain.commands)
       /\ Len(Finished) = Len(chain.commands)
       /\ \A i \in DOMAIN chain.commands :
            /\ Finished[i].stage = i
            /\ results[i] = BlockOf(Finished[i])
       /\ response = Join(results)

\* a sequence in which a stage raised, a stage was skipped and a later stage
\* still ran and returned
C4_RunsPastFailures ==
    /\ SequenceDone
    /\ \E i, j \in DOMAIN Finished :
        /\ i < j
        /\ Finished[i].kind = "raise"
        /\ Finished[j].kind = "return"
    /\ \E i \in DOMAIN Finished : Finished[i].kind \in {"unknown_action", "not_understood"}

\* C5: in a pipe chain the first handler failure halts the chain: nothing of
\* a later stage happens after a stage's handler raises, and the halted
\* stage's error is the final result.
C5_PipeHaltsAtFailure ==
    chain.chain_type = "pipe"
    => /\ \A k \in DOMAIN events :
            events[k].kind = "raise" => (k = Len(events) /\ pc \in {"format", "done"})
       /\ (pc = "done" /\ events # <<>> /\ events[Len(events)].kind = "raise")
            => response = <<"[", ToString(events[Len(events)].stage), "] Failed: ">>
                            \o events[Len(events)].out

\* a pipe halted by a failure with stages left to run
C5_HaltedBeforeTheEnd ==
    /\ PipeDone
    /\ events[Len(events)].kind = "raise"
    /\ events[Len(events)].stage < Len(chain.commands)

\* C6: in a pipe chain, each command whose use_previous_output flag is set is
\* invoked with the prior command's textual result injected as its target
\* parameter; an explicit target is overridden only if the command requested
\* substitution (_use_previous) or provided no target.
C6_PreviousOutputInjected ==
    chain.chain_type = "pipe"
    => \A k \in DOMAIN events :
        (/\ events[k].kind = "start"
         /\ chain.commands[events[k].stage].use_previous_output
         /\ events[k].out # NoOutput)
        => IF \/ Truthy(chain.commands[events[k].stage].params, "_use_previous")
              \/ ~Truthy(chain.commands[events[k].stage].params, "target")
           THEN /\ "target" \in DOMAIN events[k].params
                /\ events[k].params["target"] = events[k].out
           ELSE events[k].params["target"] = chain.commands[events[k].stage].params["target"]

\* C7: in a pipe chain the stages are executed strictly in segment order: the
\* handler of a later stage is never started before the handler started
\* before it has returned its output.
C7_PipeStagesInOrder ==
    chain.chain_type = "pipe"
    => \A k1, k2 \in DOMAIN events :
        (k1 < k2 /\ events[k1].kind = "start" /\ events[k2].kind = "start")
        => /\ events[k1].stage < events[k2].stage
           /\ \E m \in (k1 + 1)..(k2 - 1) :
                /\ events[m].kind = "return"
                /\ events[m].stage = events[k1].stage

\* a pipe of three stages whose handlers all ran
C7_ThreeStagesRan ==
    /\ PipeDone
    /\ Cardinality(Returns) = 3

(***************************************************************************)
(* Properties of the Intent Catalog (SpecCatalog).                         *)
(***************************************************************************)
HasKeyword(entry, keyword) == \E m \in DOMAIN entry.keywords : entry.keywords[m] = keyword

\* every keyword an intent has before the step, it has after the step
KeywordsKept ==
    \A i \in DOMAIN intents :
        \E j \in DOMAIN intents' :
            /\ intents'[j].intent = intents[i].intent
            /\ \A k \in DOMAIN intents[i].keywords :
                HasKeyword(intents'[j], intents[i].keywords[k])

\* C10: loading a language pack never removes or replaces a base-language
\* keyword: for every intent, the keyword list before load_language or
\* load_languages is contained in the keyword list after it.
C10_LoadKeepsKeywords ==
    [][(n_calls' # n_calls /\ op' \in {"load_language", "load_languages"}) => KeywordsKept]_vars

\* Spanish and German are loaded and "help" has its English, Spanish and
\* German keywords
C10_HelpInThreeLanguages ==
    /\ \E i \in DOMAIN loaded_languages : loaded_languages[i] = "es"
    /\ \E i \in DOMAIN loaded_languages : loaded_languages[i] = "de"
    /\ HasKeyword(IntentOf(intents, "help"), W_help)
    /\ HasKeyword(IntentOf(intents, "help"), W_ayuda)
    /\ HasKeyword(IntentOf(intents, "help"), W_hilfe)


(***************************************************************************)
(* Claims about the loaded languages, the catalog and the plugins.         *)
(***************************************************************************)

\* the codes of a list, as a set
Codes(list) == { list[i] : i \in DOMAIN list }

\* the language list has every code at most once
NoDuplicates(list) == \A i, j \in DOMAIN list : list[i] = list[j] => i = j

\* the list get_loaded_languages returns: "en", and then every supported
\* code load_language was called with, once
LoadedOnce ==
    /\ NoDuplicates(get_loaded_languages(loaded_languages))
    /\ "en" \in Codes(get_loaded_languages(loaded_languages))
    /\ Codes(get_loaded_languages(loaded_languages))
         = {"en"} \cup { c \in Codes(requested) : get_language_pack(c) }

\* the code of the load_language call this step made
LoadedCode == requested'[Len(requested')]

\* a load_language call with "en", a loaded code or an unsupported code
RepeatedLoad ==
    /\ n_calls' # n_calls
    /\ op' = "load_language"
    /\ \/ LoadedCode = "en"
       \/ LoadedCode \in Codes(loaded_languages)
       \/ ~get_language_pack(LoadedCode)

\* C11: after any calls of load_language the list of loaded languages holds
\* "en" and every loaded code exactly once, and a call with "en", with a code
\* that is loaded or with an unsupported code leaves the list as it was
C11_LoadIdempotent ==
    /\ []LoadedOnce
    /\ [][RepeatedLoad => loaded_languages' = loaded_languages]_vars

\* "es" was loaded twice and the unsupported "xx" once: the list is en, es
C11_LoadedTwice ==
    /\ \E i, j \in DOMAIN requested : i # j /\ requested[i] = "es" /\ requested[j] = "es"
    /\ "xx" \in Codes(requested)
    /\ get_loaded_languages(loaded_languages) = <<"en", "es">>

\* the names of the intents of a catalog
IntentNames(catalog) == { catalog[i].intent : i \in DOMAIN catalog }

\* this step called register_intent, directly or from load_plugin
Registers ==
    /\ n_calls' # n_calls
    /\ op' \in {"register_intent", "load_plugin"}

\* the catalog after the step has the registered pattern under its name,
\* once, and every other name as it was
RegisteredByName ==
    /\ \E i \in DOMAIN intents' :
        /\ intents'[i] = registered'
        /\ \A j \in DOMAIN intents' : intents'[j].intent = registered'.intent => j = i
    /\ IntentNames(intents') = IntentNames(intents) \cup {registered'.intent}
    /\ \A name \in IntentNames(intents) \ {registered'.intent} :
        IntentOf(intents', name) = IntentOf(intents, name)

\* C12: register_intent(d) inserts or replaces the entry of the catalog
\* under d.intent: afterwards the catalog has d under that name, and every
\* entry of another name is unchanged
C12_RegisterInsertsOrReplaces == [][Registers => RegisteredByName]_vars

\* a plugin named "help" was loaded over the built-in "help", and after it
\* a new intent was registered: both are in the catalog, "crawl" is as it was
C12_HelpReplaced ==
    /\ op = "register_intent"
    /\ "help" \in plugins
    /\ registered.intent = "weather"
    /\ IntentOf(intents, "weather") = registered
    /\ IntentOf(intents, "help") = get_intent_pattern(
            CHOOSE info \in PluginInfos : info.name = "help")
    /\ IntentOf(intents, "crawl") = IntentOf(default_intents, "crawl")

\* C13: under register_intent, plugin loads and plugin unloads no intent
\* name leaves the parser's catalog: the set of names only grows
C13_IntentNamesOnlyGrow == [][IntentNames(intents) \subseteq IntentNames(intents')]_vars

\* the plugin "smarthome" was loaded and unloaded again: its intent is still
\* in the catalog, with the built-in ones
C13_UnloadedStaysRegistered ==
    /\ op = "unload_plugin"
    /\ "smarthome" \notin plugins
    /\ "smarthome" \in IntentNames(intents)
    /\ IntentNames(default_intents) \subseteq IntentNames(intents)


(***************************************************************************)
(* Claims about the answers of handle_message.                             *)
(***************************************************************************)

\* a command without intent is answered: a single command by the generic
\* response, a stage of a chain by its "Could not understand" block
NullIntentAnswered ==
    pc = "done" =>
        IF ~is_chain(text)
        THEN chain.commands[1].intent = None => response = DidNotUnderstand
        ELSE /\ \A i \in DOMAIN results :
                    chain.commands[i].intent = None
                        => results[i] = CouldNotUnderstand(i, chain.commands[i].raw_text)
             /\ response = FormatChain(chain.chain_type, results)

\* the exception of a handler is a failure text: the response of a single
\* command, the block of the stage in a chain (the response of a pipe)
FailureAnswered ==
    \A k \in DOMAIN events :
        events[k].kind = "raise" =>
            IF ~is_chain(text)
            THEN pc = "done" /\ response = ActionFailed(events[k].out)
            ELSE /\ events[k].stage \in DOMAIN results
                 /\ results[events[k].stage] = Failed(events[k].stage, events[k].out)
                 /\ (pc = "done" /\ chain.chain_type = "pipe")
                        => response = Failed(events[k].stage, events[k].out)

\* C14: handle_message always answers and no exception of a handler leaves
\* it: a command without intent gets the "didn't understand" response, and
\* the exception of a handler becomes a failure text, in a single command
\* and in a chain
C14_AlwaysAnswers ==
    /\ pc # "raised"
    /\ NullIntentAnswered
    /\ FailureAnswered

\* a sequence was answered in which one stage had no intent and the handler
\* of another raised
C14_AnsweredGibberishAndFailure ==
    /\ pc = "done"
    /\ chain.chain_type = "sequence"
    /\ \E i \in DOMAIN chain.commands : chain.commands[i].intent = None
    /\ \E k \in DOMAIN events : events[k].kind = "raise"
    /\ response = Join(results)


(***************************************************************************)
(* Claims about the examples of the intents.                               *)
(***************************************************************************)

\* the intents of the catalog that have the text among their examples
OwnersOf(catalog, t) ==
    { catalog[i].intent : i \in { j \in DOMAIN catalog :
                                    \E k \in DOMAIN catalog[j].examples :
                                        catalog[j].examples[k] = t } }

\* C15: parsing a text that is one of the examples of a registered intent
\* returns that intent, with a confidence of at least 0.6
C15_ExampleParsesToOwnIntent ==
    (parsed.called /\ op = "parse_example")
    => \A name \in OwnersOf(intents, parsed.text) :
            /\ parsed.result.intent = name
            /\ GE(parsed.result.confidence, ACCEPT_FLOOR)


(***************************************************************************)
(* Claims about the learned-correction cache.                              *)
(***************************************************************************)

\* the phrases of the user's entries in the cache
CachedPhrases(cache, u) ==
    IF u \in DOMAIN cache THEN { cache[u][i].phrase : i \in DOMAIN cache[u] } ELSE {}

\* C16: a phrase that learn_correction has put into a user's cache stays in
\* that user's cache, whatever load_user_patterns and learn_correction
\* calls follow or interleave
C16_LearnedNeverEvicted ==
    \A u \in Users : DOMAIN corrected[u] \subseteq CachedPhrases(learned_patterns_cache, u)

\* the users of the load_user_patterns and learn_correction calls that
\* resume in this step
ResumedUsers ==
    { learning[k].user_id : k \in { j \in DOMAIN learning : learning' = Remove(learning, j) } }
        \cup { loading[k].user_id : k \in { j \in DOMAIN loading : loading' = Remove(loading, j) } }

\* the user's entry of the cache: no entry, or the list
CacheEntry(cache, u) == IF u \in DOMAIN cache THEN << cache[u] >> ELSE <<>>

\* C17: the learned-correction cache is not shared across users: a
\* load_user_patterns or learn_correction of one user leaves the cached
\* patterns of every other user as they were, and with them the result of
\* parse(text, other user) for every text
C17_NoCrossUserSharing ==
    [][learned_patterns_cache' # learned_patterns_cache
        => \A b \in Users \ ResumedUsers :
            /\ CacheEntry(learned_patterns_cache', b) = CacheEntry(learned_patterns_cache, b)
            /\ \A t \in UserTexts :
                parse(intents', learned_patterns_cache', t, b)
                    = parse(intents, learned_patterns_cache, t, b)]_vars

\* alice has learned a phrase after bob's patterns were loaded: bob's list is
\* still the empty one
C17_AliceLearnedBobLoaded ==
    /\ "alice" \in DOMAIN learned_patterns_cache
    /\ "bob" \in DOMAIN learned_patterns_cache
    /\ learned_patterns_cache["alice"] # <<>>
    /\ learned_patterns_cache["bob"] = <<>>
    /\ DOMAIN corrected["alice"] # {}

\* the learn_correction call that resumes in this step
ResumedLearn == learning[CHOOSE k \in DOMAIN learning : learning' = Remove(learning, k)]

\* the learn_correction call that is made in this step
CalledLearn == learning'[Len(learning')]

\* the user's list of the cache, empty when the user has no entry
CachedPatterns(cache, u) == IF u \in DOMAIN cache THEN cache[u] ELSE <<>>

\* the list after learn_correction(c): the first entry of the normalized
\* phrase is overwritten in its place with use_count + 1, or a new entry
\* with use_count 1 is appended
UpdatedInPlaceOrAppended(old, new, c) ==
    LET normalized == Strip(Lower(c.phrase))
        hits == { i \in DOMAIN old : old[i].phrase = normalized }
    IN  IF hits # {}
        THEN LET i == CHOOSE a \in hits : \A b \in hits : a <= b IN
             /\ Len(new) = Len(old)
             /\ new[i] = [phrase |-> normalized, intent |-> c.intent, params |-> c.params,
                          use_count |-> old[i].use_count + 1]
             /\ \A j \in DOMAIN old \ {i} : new[j] = old[j]
        ELSE new = Append(old, [phrase |-> normalized, intent |-> c.intent,
                                params |-> c.params, use_count |-> 1])

\* the store has the write of learn_correction(c)
Forwarded(st, c) ==
    \E i \in DOMAIN st[c.user_id] :
        /\ st[c.user_id][i].phrase = Strip(Lower(c.phrase))
        /\ st[c.user_id][i].intent = c.intent
        /\ st[c.user_id][i].params = c.params

\* C19: learn_correction normalizes the phrase and overwrites the user's
\* entry of that phrase in place (intent, params, use_count + 1) or, when
\* there is none, appends an entry with use_count 1; the write is forwarded
\* to the persistence collaborator
C19_LearnUpdatesOrAppends ==
    [][/\ Len(learning') < Len(learning)
          => UpdatedInPlaceOrAppended(
                CachedPatterns(learned_patterns_cache, ResumedLearn.user_id),
                CachedPatterns(learned_patterns_cache', ResumedLearn.user_id),
                ResumedLearn)
       /\ Len(learning') > Len(learning) => Forwarded(store', CalledLearn)]_vars

\* a phrase was corrected twice, in two spellings: the cache has one entry
\* for it, with the second intent and use_count 2
C19_CorrectedTwice ==
    \E u \in DOMAIN learned_patterns_cache :
        /\ Len(learned_patterns_cache[u]) = 1
        /\ learned_patterns_cache[u][1].phrase = W_menu
        /\ learned_patterns_cache[u][1].use_count = 2
        /\ learning = <<>>


(***************************************************************************)
(* Claims about the shell action.                                          *)
(***************************************************************************)

\* the shell interpreters, which no allowlist of a sandbox has
Interpreters == {"sh", "bash", "zsh", "dash"}

\* an executable the sandbox does not allow
NotAllowed(action, x) ==
    \/ x \in Interpreters
    \/ action.allowed_commands # {} /\ x \notin action.allowed_commands

\* C18: with sandboxing enabled the shell action never executes a command
\* with an executable that is not in the allowlist (the interpreters sh,
\* bash, zsh and dash never are): no process is started and execute
\* returns the "blocked" message
C18_SandboxRunsAllowlistedOnly ==
    (shell.sandboxed /\ \E x \in Executables(shell.command) : NotAllowed(shell, x))
    => /\ shell.started = {}
       /\ ~shell.running
       /\ shell.enabled => shell.result.kind = "blocked"


(***************************************************************************)
(* Claims about the order of the delimiter rules.                          *)
(***************************************************************************)

\* the non-empty trimmed segments rule k makes of the text
RuleSegments(k) == CleanParts(ReSplit(CHAIN_PATTERNS[k], text))

\* the rules that make at least two segments of the text
YieldingRules == { k \in DOMAIN CHAIN_PATTERNS : Len(RuleSegments(k)) >= 2 }

\* the rules are the pipe, the arrow, "and then", "then" and the semicolon,
\* in this order
RulePriority ==
    [k \in DOMAIN CHAIN_PATTERNS |-> CHAIN_PATTERNS[k].words]
        = << << <<"|">> >>, << <<"-", ">">> >>, << <<"a","n","d">>, <<"t","h","e","n">> >>,
             << <<"t","h","e","n">> >>, << <<";">> >> >>

\* the split is the one of the first rule that makes at least two segments
\* (rs[k] are the segments of rule k), or the text itself when none does
SplitsByFirstOf(rs) ==
    LET yielding == { k \in DOMAIN rs : Len(rs[k]) >= 2 } IN
    IF yielding # {}
    THEN LET k == CHOOSE a \in yielding : \A b \in yielding : a <= b IN
         /\ segments = rs[k]
         /\ split_type = CHAIN_PATTERNS[k].type
         /\ \A i \in DOMAIN segments :
                segments[i] # <<>> /\ Strip(segments[i]) = segments[i]
    ELSE segments = <<text>> /\ split_type = "none"

\* C20: _split_chain returns the segments and the chain type of the first
\* rule, in the order pipe, arrow, "and then", "then", ";", that makes at
\* least two non-empty trimmed segments of the text, and the text itself as
\* one segment of type "none" when no rule does; no segment of a chain is
\* empty or whitespace
C20_FirstYieldingRuleSplits ==
    pc = "split" =>
        /\ RulePriority
        /\ SplitsByFirstOf([k \in DOMAIN CHAIN_PATTERNS |-> RuleSegments(k)])

\* "and then" and "then" both split the text, into different segments, and
\* the segments of "and then" were returned
C20_AndThenBeforeThen ==
    /\ pc = "split"
    /\ {3, 4} \subseteq YieldingRules
    /\ RuleSegments(3) # RuleSegments(4)
    /\ segments = RuleSegments(3)

(***************************************************************************)
(* parse_chain on a parser with learned patterns.  parse hands out the     *)
(* params dict of the learned pattern it matched, not a copy               *)
(* (parser.py:533), so what parse_chain writes into cmd.params             *)
(* (parser.py:863) is written into the cache entry as well.                *)
(***************************************************************************)
\* the place of the first pattern with this phrase in a list, or 0
RECURSIVE FirstWithPhrase(_, _, _)
FirstWithPhrase(patterns, phrase, k) ==
    IF k > Len(patterns) THEN 0
    ELSE IF patterns[k].phrase = phrase THEN k
    ELSE FirstWithPhrase(patterns, phrase, k + 1)

\* the cache entry whose params dict parse(raw, user_id) returns by
\* reference: the learned match, when its params are a non-empty dict
\* (`learned_match.get("params") or {}`, parser.py:533); 0 when the params
\* of the result are a fresh dict
SharedEntry(cache, raw, user_id) ==
    IF Strip(raw) = <<>> THEN 0
    ELSE LET m == learned_lookup(cache, Lower(Strip(raw)), user_id) IN
         IF m = NoPattern \/ m.params \in {NoneParams, EmptyDict} THEN 0
         ELSE FirstWithPhrase(cache[user_id], m.phrase, 1)

\* the cache after cmd.params of the command of entry k was written
WriteThrough(cache, user_id, k, params) ==
    IF k = 0 THEN cache ELSE [cache EXCEPT ![user_id][k].params = params]

\* the segment loop of parse_chain from segment i on (parser.py:851-865):
\* the commands, the cache entries their params are shared with, and the cache
RECURSIVE ChainLoop(_, _, _, _, _, _, _, _)
RECURSIVE ChainLoopStep(_, _, _, _, _, _, _, _, _, _)
ChainLoop(catalog, cache, segs, chain_type, i, user_id, commands, shared) ==
    IF i > Len(segs) THEN [commands |-> commands, shared |-> shared, cache |-> cache]
    ELSE ChainLoopStep(catalog, cache, segs, chain_type, i, user_id, commands, shared,
                       ChainCommand(catalog, cache, segs, chain_type, i, user_id),
                       SharedEntry(cache, segs[i], user_id))

ChainLoopStep(catalog, cache, segs, chain_type, i, user_id, commands, shared, cmd, k) ==
    ChainLoop(catalog, WriteThrough(cache, user_id, k, cmd.params), segs, chain_type,
              i + 1, user_id, Append(commands, cmd), Append(shared, k))

\* the commands as the caller reads them: a shared params dict shows what the
\* cache entry holds when parse_chain returns
ReadCommands(loop, user_id) ==
    [i \in DOMAIN loop.commands |->
        IF loop.shared[i] = 0 THEN loop.commands[i]
        ELSE [loop.commands[i] EXCEPT !.params = loop.cache[user_id][loop.shared[i]].params]]

\* parse_chain of a stripped text split into sp = <<segments, chain_type>>:
\* the CommandChain it returns and the cache it leaves
parse_chain_shared(catalog, cache, t, sp, user_id) ==
    IF Len(sp[1]) = 1
    THEN [chain |-> [commands |-> << parse(catalog, cache, t, user_id) >>, chain_type |-> "none"],
          cache |-> cache]
    ELSE LET loop == ChainLoop(catalog, cache, sp[1], sp[2], 1, user_id, <<>>, <<>>) IN
         [chain |-> [commands |-> ReadCommands(loop, user_id), chain_type |-> sp[2]],
          cache |-> loop.cache]

W_url == <<"h","t","t","p",":","/","/","a">>
W_url_typo == <<"h","t","t","p",":","/","a">>
W_depth == <<"2">>

\* inputs of learn_correction: <<phrase, correct_intent, params>>
ChainCorrections == {
    << W_url, "summarize", Put(EmptyDict, "depth", W_depth) >>,
    << W_menu, "summarize", NoneParams >> }

\* inputs of parse_chain
ChainCalls == {
    W_crawl \o <<SP,"x",SP,"|",SP>> \o W_url_typo,
    W_crawl \o <<SP,"x",SP,"|",SP>> \o W_url,
    W_crawl \o <<SP,"x",SP,"|",SP>> \o W_summarize \o <<SP,"y">>,
    W_menu \o <<SP,";",SP>> \o W_url,
    W_menu }

\* the user of the corrections and of the chains
ChainUsers == {"alice"}

\* parse_chain(text, user_id) (parser.py:821-868)
ParseChain(t, u) ==
    /\ LET r == parse_chain_shared(intents, learned_patterns_cache, Strip(t),
                                   split_chain(Strip(t)), u) IN
        /\ chain' = r.chain
        /\ learned_patterns_cache' = r.cache
    /\ text' = t
    /\ UNCHANGED <<webhookVars, shellVars, catalogVars, pc, detected, segments, split_type,
                   intents, has_memory, store, learning, loading, n_calls, parsed, corrected,
                   actions, idx, results, previous_output, call, events, stored, response>>

NextParseChain ==
    \/ \E u \in ChainUsers, c \in ChainCorrections : LearnCall(u, c[1], c[2], c[3])
    \/ \E k \in 1..MaxCalls : LearnResume(k)
    \/ \E u \in ChainUsers, t \in ChainCalls : ParseChain(t, u)

SpecParseChain == InitUsers /\ [][NextParseChain]_vars

\* the command's own parse produced no target parameter and no URL entity
NoTargetNoUrl(cmd) == ~Truthy(cmd.params, "target") /\ ~Truthy(cmd.entities, "urls")

\* C21: in a chain parsed as pipe every command but the first has
\* use_previous_output set and the first has not, no command of a sequence
\* chain has it set, and a command of a pipe after the first has the
\* _use_previous parameter exactly when its parse produced no target
\* parameter and no URL entity
C21_PipeFlags ==
    /\ chain.chain_type = "pipe" =>
        \A i \in DOMAIN chain.commands :
            /\ chain.commands[i].use_previous_output <=> i > 1
            /\ i > 1 => ("_use_previous" \in DOMAIN chain.commands[i].params
                            <=> NoTargetNoUrl(chain.commands[i]))
    /\ chain.chain_type = "sequence" =>
        \A i \in DOMAIN chain.commands : ~chain.commands[i].use_previous_output

(***************************************************************************)
(* The matching strategies on their own: one parser with memory, one user  *)
(* who corrects, and parses of texts that reach every strategy.            *)
(***************************************************************************)
W_summarise == <<"s","u","m","m","a","r","i","s","e">>

\* inputs of learn_correction: <<phrase, correct_intent, params>>
MatchCorrections == {
    << W_xyzzy, "news", NoneParams >>,
    << <<"X","y","z","z","y",SP>>, "crawl", Put(EmptyDict, "url", <<"x">>) >>,
    << W_spider, "help", NoneParams >> }

\* inputs of parse
MatchTexts == {
    W_spider \o <<SP>> \o W_sum_up,
    <<"S","u","m",SP,"u","p",SP>> \o W_spider,
    W_spider \o <<SP>> \o W_menu,
    W_menu,
    <<"s">>,
    <<"m","e","n">>,
    W_crawl \o <<SP,"x">>,
    W_crawl \o <<SP>> \o W_tldr,
    W_tldr \o <<SP>> \o W_crawl,
    W_summarise,
    W_summarize \o <<"s",SP,"c","r","a","a","w","l">>,
    W_help,
    W_xyzzy,
    <<SP>> }

MatchUsers == {"alice", None}

NextMatch ==
    \/ \E c \in MatchCorrections : LearnCall("alice", c[1], c[2], c[3])
    \/ \E k \in 1..MaxCalls : LearnResume(k)
    \/ \E u \in MatchUsers, t \in MatchTexts : Parse(t, u)

SpecMatch == InitUsers /\ [][NextMatch]_vars

(***************************************************************************)
(* Claims about the phrase-variation stage.                                *)
(***************************************************************************)
\* the larger of two scores
MaxScore(a, b) == IF GT(b, a) THEN b ELSE a

RECURSIVE MaxOfScores(_, _)
MaxOfScores(scores, k) ==
    IF k > Len(scores) THEN ZERO ELSE MaxScore(scores[k], MaxOfScores(scores, k + 1))

\* the score a phrase earns on a text: 0.92 for containment, otherwise the
\* partial ratio when it is above 0.85, otherwise none
PhraseScore(phrase, t) ==
    IF Contains(phrase, t) THEN PHRASE_CONTAINS
    ELSE LET r == partial_ratio(phrase, t) IN IF GT(r, PHRASE_FLOOR) THEN r ELSE ZERO

\* the best score of every entry of the phrase table, none for an intent that
\* is not registered
EntryScores(catalog, t) ==
    [e \in DOMAIN PHRASE_VARIATIONS |->
        IF Registered(catalog, PHRASE_VARIATIONS[e].intent)
        THEN MaxOfScores([j \in DOMAIN PHRASE_VARIATIONS[e].phrases |->
                            PhraseScore(PHRASE_VARIATIONS[e].phrases[j], t)], 1)
        ELSE ZERO]

\* the entries of the phrase table that reach the top score
TopEntries(scores) ==
    { e \in DOMAIN scores : SameScore(scores[e], MaxOfScores(scores, 1)) }

\* the place of an intent in the catalog
PlaceOf(catalog, name) == CHOOSE i \in DOMAIN catalog : catalog[i].intent = name

\* the top score wins; of the intents that reach it the one registered first
\* in the catalog is returned
FirstRegisteredWins(result, catalog, scores) ==
    IF MaxOfScores(scores, 1) = ZERO THEN result = NoBest
    ELSE /\ SameScore(result.score, MaxOfScores(scores, 1))
         /\ \E e \in TopEntries(scores) :
                /\ result.intent = PHRASE_VARIATIONS[e].intent
                /\ \A f \in TopEntries(scores) :
                       PlaceOf(catalog, PHRASE_VARIATIONS[e].intent)
                           <= PlaceOf(catalog, PHRASE_VARIATIONS[f].intent)

\* the top score wins; of the intents that reach it the one listed first in
\* the phrase table is returned
FirstListedWins(result, scores) ==
    IF MaxOfScores(scores, 1) = ZERO THEN result = NoBest
    ELSE /\ SameScore(result.score, MaxOfScores(scores, 1))
         /\ \E e \in TopEntries(scores) :
                /\ result.intent = PHRASE_VARIATIONS[e].intent
                /\ \A f \in TopEntries(scores) : e <= f

\* C22 as stated: in the phrase-variation stage the highest-scoring
\* candidate across all intents wins, and of two intents with the same score
\* the one registered first in the catalog is returned
C22_TieToFirstRegistered ==
    (parsed.called /\ Strip(parsed.text) # <<>>)
    => FirstRegisteredWins(match_phrase_variations(intents, Lower(Strip(parsed.text))),
                           intents, EntryScores(intents, Lower(Strip(parsed.text))))

\* C22: in the phrase-variation stage the highest-scoring candidate across
\* all registered intents wins, and of two intents with the same score the
\* one listed first in the phrase table PHRASE_VARIATIONS is returned
C22_TieToFirstListed ==
    (parsed.called /\ Strip(parsed.text) # <<>>)
    => FirstListedWins(match_phrase_variations(intents, Lower(Strip(parsed.text))),
                       EntryScores(intents, Lower(Strip(parsed.text))))

\* two intents tie at the top score, the one listed first in the phrase table
\* is registered later in the catalog, and parse returned it
TieAcrossOrders(result, catalog, scores) ==
    \E e, f \in TopEntries(scores) :
        /\ e < f
        /\ PlaceOf(catalog, PHRASE_VARIATIONS[f].intent) < PlaceOf(catalog, PHRASE_VARIATIONS[e].intent)
        /\ \A g \in TopEntries(scores) : e <= g
        /\ result.intent = PHRASE_VARIATIONS[e].intent
        /\ SameScore(result.confidence, scores[e])

C22_TieReturnedFirstListed ==
    /\ parsed.called
    /\ Strip(parsed.text) # <<>>
    /\ TieAcrossOrders(parsed.result, intents, EntryScores(intents, Lower(Strip(parsed.text))))

(***************************************************************************)
(* Claims about the keyword/regex fallback.                                *)
(***************************************************************************)
\* the fuzzy score of a keyword on the words from word w on: the best ratio
\* above 0.8
RECURSIVE FuzzyScore(_, _, _)
FuzzyScore(keyword, words, w) ==
    IF w > Len(words) THEN ZERO
    ELSE LET r == ratio(keyword, words[w]) IN
         MaxScore(IF GT(r, KEYWORD_FUZZY_FLOOR) THEN r ELSE ZERO,
                  FuzzyScore(keyword, words, w + 1))

\* the score of one keyword as _match_keywords computes it: 0.9 for a keyword
\* the text contains, and the fuzzy score only for a keyword it does not
KeywordScore(keyword, t, words) ==
    IF Contains(keyword, t) THEN KEYWORD_CONTAINS ELSE FuzzyScore(keyword, words, 1)

\* the best keyword score of an intent from keyword j on
RECURSIVE KeywordsScore(_, _, _, _)
KeywordsScore(keywords, t, words, j) ==
    IF j > Len(keywords) THEN ZERO
    ELSE MaxScore(KeywordScore(keywords[j], t, words),
                  KeywordsScore(keywords, t, words, j + 1))

\* the best regex score of an intent from regex j on
RECURSIVE RegexesScore(_, _, _)
RegexesScore(patterns, t, j) ==
    IF j > Len(patterns) THEN ZERO
    ELSE MaxScore(IF re_search(patterns[j], t).matched THEN REGEX_SCORE ELSE ZERO,
                  RegexesScore(patterns, t, j + 1))

\* the best score of every intent of the catalog from intent i on
RECURSIVE IntentScores(_, _, _, _)
IntentScores(catalog, t, words, i) ==
    IF i > Len(catalog) THEN <<>>
    ELSE << MaxScore(KeywordsScore(catalog[i].keywords, t, words, 1),
                     RegexesScore(catalog[i].patterns, t, 1)) >>
         \o IntentScores(catalog, t, words, i + 1)

\* the result is the top score and an intent that reaches it, and no match
\* when the top score is below the acceptance floor
TopWins(result, catalog, scores, top) ==
    IF ~GE(top, ACCEPT_FLOOR) THEN result = NoBest
    ELSE /\ SameScore(result.score, top)
         /\ \E i \in DOMAIN catalog :
                /\ result.intent = catalog[i].intent
                /\ SameScore(scores[i], top)

MaximumWins(result, catalog, scores) ==
    TopWins(result, catalog, scores, MaxOfScores(scores, 1))

\* parse returns the null intent exactly when no strategy produced a match
NullIffNoMatch(result, learned_match, phrase_match, best_match) ==
    result.intent = None
        <=> (learned_match = NoPattern /\ phrase_match = NoBest /\ best_match = NoBest)

\* the strategies parse consulted for the text: none for a text that is empty
\* once stripped (parser.py:521-522)
NullIffNothingMatched(request, catalog, cache) ==
    IF Strip(request.text) = <<>> THEN request.result.intent = None
    ELSE NullIffNoMatch(request.result,
                        learned_lookup(cache, Lower(Strip(request.text)), request.user_id),
                        match_phrase_variations(catalog, Lower(Strip(request.text))),
                        match_keywords(catalog, Lower(Strip(request.text))))

LaterIntentScoredHigher(result, catalog, scores) ==
    \E i, j \in DOMAIN catalog :
        /\ i < j
        /\ GT(scores[i], ZERO)
        /\ GT(scores[j], scores[i])
        /\ result.intent = catalog[j].intent
        /\ SameScore(result.confidence, scores[j])

CorrectionsOf(phrase) ==
    { << c[2], c[3] >> : c \in { d \in MatchCorrections : Strip(Lower(d[1])) = phrase } }

\* every entry of a list of learned patterns is one whole correction of its
\* phrase, and no two entries have the same phrase
WholeEntries(patterns) ==
    /\ \A k \in DOMAIN patterns :
           << patterns[k].intent, patterns[k].params >> \in CorrectionsOf(patterns[k].phrase)
    /\ \A j, k \in DOMAIN patterns : patterns[j].phrase = patterns[k].phrase => j = k

\* the params parse returns for a learned pattern: `params or {}`
ParamsOrEmpty(params) == IF params = NoneParams THEN EmptyDict ELSE params

\* a parse that a learned pattern decided returned one whole correction
WholeResult(result, learned_match) ==
    learned_match # NoPattern =>
        \E c \in CorrectionsOf(learned_match.phrase) :
            result.intent = c[1] /\ result.params = ParamsOrEmpty(c[2])

\* C24: under every interleaving of learn_correction calls and parse calls
\* of one user, the intent and the params of every cache entry, and of every
\* parse result a cache entry decides, come from one correction, and the
\* cache has one entry for every normalized phrase
C24_CacheEntriesAreWhole ==
    /\ \A u \in DOMAIN learned_patterns_cache : WholeEntries(learned_patterns_cache[u])
    /\ (parsed.called /\ Strip(parsed.text) # <<>>)
        => WholeResult(parsed.result,
                       learned_lookup(learned_patterns_cache, Lower(Strip(parsed.text)),
                                      parsed.user_id))

\* two corrections of one phrase were in flight together: the first has
\* updated the cache, the second is still suspended in its persistence
\* write, and a parse of the phrase in between returned the first one
C24_ParsedBetweenTwoCorrections ==
    /\ "alice" \in DOMAIN learned_patterns_cache
    /\ \E k \in DOMAIN learned_patterns_cache["alice"] :
           /\ learned_patterns_cache["alice"][k].phrase = W_xyzzy
           /\ \E j \in DOMAIN learning :
                  /\ learning[j].user_id = "alice"
                  /\ Strip(Lower(learning[j].phrase)) = W_xyzzy
                  /\ learning[j].intent # learned_patterns_cache["alice"][k].intent
           /\ parsed.result.intent = learned_patterns_cache["alice"][k].intent
    /\ n_calls = 2
    /\ parsed.called
    /\ parsed.user_id = "alice"
    /\ Lower(Strip(parsed.text)) = W_xyzzy
    /\ parsed.result.confidence = LEARNED_CONFIDENCE

(***************************************************************************)
(* Slot and entity extraction on their own: _extract_entities and          *)
(* _extract_params applied to texts made of the tokens below.              *)
(***************************************************************************)
W_describe == <<"d","e","s","c","r","i","b","e">>
W_image == <<"i","m","a","g","e">>

\* the vision intent, with the "describe image" form of its third regex
\* (parser.py:453-467)
VisionIntent ==
    [intent |-> "vision",
     keywords |-> <<W_image>>,
     patterns |-> << [kind |-> "opt", lit |-> W_describe, ext |-> W_image] >>,
     examples |-> <<>>,
     slots |-> <<"path">>]

ExtractTokens == {
    <<"h","t","t","p",":","/","/","a",":","8","0","/","7">>,
    <<"7">>,
    <<"0","1",".","5","0">>,
    <<"x","9">>,
    W_tomorrow,
    <<"a","@","b",".","i","o">>,
    <<"S","u","m","m","a","r","i","z","e">>,
    W_tldr,
    W_crawl,
    <<"y",".","p","d","f">>,
    W_describe,
    W_image,
    W_lights }

\* the texts of one token, of two tokens with a blank between them, and two
\* texts of three tokens
ExtractTexts ==
    ExtractTokens \cup { a \o <<SP>> \o b : a \in ExtractTokens, b \in ExtractTokens }
        \cup { W_summarize \o <<SP>> \o W_tldr \o <<SP,"x","9">>,
               W_describe \o <<SP,SP>> \o W_image \o <<SP,"y",".","p","d","f">> }

\* the intents whose slots are extracted: the built-in ones, the vision
\* intent and the intents of the plugins
ExtractPatterns ==
    { default_intents[i] : i \in DOMAIN default_intents } \cup { VisionIntent }
        \cup { get_intent_pattern(info) : info \in { x \in PluginInfos : x.patterns # <<>> } }

InitExtract ==
    /\ pc = "extract"
    /\ ChainIdle
    /\ EngineIdle
    /\ ParserIdle

\* self._extract_entities(text) (parser.py:617-651), applied to one text
ExtractEntities(t) ==
    /\ ~parsed.called
    /\ parsed' = [called |-> TRUE, text |-> t, user_id |-> None,
                  result |-> [ParsedCommand(t) EXCEPT !.entities = extract_entities(t)]]
    /\ op' = "extract_entities"
    /\ UNCHANGED <<webhookVars, shellVars, loaded_languages, requested, plugins, registered, pc, chainVars,
                   engineVars, intents, has_memory, learned_patterns_cache, store, learning,
                   loading, n_calls, corrected>>

\* self._extract_params(text, intent_pattern) (parser.py:601-615), applied to
\* one text and one intent
ExtractParams(t, pattern) ==
    /\ ~parsed.called
    /\ parsed' = [called |-> TRUE, text |-> t, user_id |-> None,
                  result |-> [ParsedCommand(t) EXCEPT !.intent = pattern.intent,
                                                      !.params = extract_params(t, pattern)]]
    /\ op' = "extract_params"
    /\ registered' = pattern
    /\ UNCHANGED <<webhookVars, shellVars, loaded_languages, requested, plugins, pc, chainVars,
                   engineVars, intents, has_memory, learned_patterns_cache, store, learning,
                   loading, n_calls, corrected>>

NextExtract ==
    \/ \E t \in ExtractTexts : ExtractEntities(t)
    \/ \E t \in ExtractTexts, pattern \in ExtractPatterns : ExtractParams(t, pattern)

SpecExtract == InitExtract /\ [][NextExtract]_vars

\* an entity of a dict of entities, empty when it is not set
EntityOf(entities, k) == IF k \in DOMAIN entities THEN entities[k] ELSE <<>>

\* C25: entity extraction removes the URLs from the text before it extracts
\* the date and the numbers: the "numbers" entity holds the numeric tokens of
\* the text without its URLs, and the "datetime" entity is the date of the
\* text without its URLs
C25_NumbersIgnoreUrls ==
    op = "extract_entities" =>
        /\ EntityOf(parsed.result.entities, "numbers")
              = FindNumbers(RemoveUrls(parsed.text, 1), 1)
        /\ EntityOf(parsed.result.entities, "datetime")
              = dateparser_parse(RemoveUrls(parsed.text, 1))

(***************************************************************************)
(* Claims about slot extraction.                                           *)
(***************************************************************************)
\* the regexes of a list that match the text
MatchingRegexes(patterns, t) == { j \in DOMAIN patterns : re_search(patterns[j], t).matched }

\* the slots that the groups fill: the slot of every group that is there and
\* is not empty
FilledSlots(slots, groups) ==
    { i \in DOMAIN slots : i <= Len(groups) /\ groups[i] # <<>> }

\* params is the positional mapping of the groups onto the slots
MapsGroups(params, slots, groups) ==
    /\ DOMAIN params = { slots[i] : i \in FilledSlots(slots, groups) }
    /\ \A i \in FilledSlots(slots, groups) : params[slots[i]] = Strip(groups[i])

\* params comes from the first regex that matches and from no other
FromFirstMatch(params, t, pattern, matching) ==
    IF matching = {} THEN params = EmptyDict
    ELSE MapsGroups(params, pattern.slots,
                    re_search(pattern.patterns[CHOOSE j \in matching :
                                                  \A k \in matching : j <= k], t).groups)

\* C26: slot extraction uses the first regex of the intent, in registration
\* order, that matches the text: its groups are mapped positionally onto the
\* slot names, extra groups are ignored, a missing or empty group leaves its
\* slot unset, and every key of the params is a slot name of the intent
C26_SlotsFromFirstMatch ==
    op = "extract_params" =>
        /\ FromFirstMatch(parsed.result.params, parsed.text, registered,
                          MatchingRegexes(registered.patterns, parsed.text))
        /\ DOMAIN parsed.result.params \subseteq { registered.slots[i] : i \in DOMAIN registered.slots }

\* two regexes of the intent match the text with different groups, and the
\* slot holds the group of the first
C26_TwoRegexesMatched ==
    /\ op = "extract_params"
    /\ MatchingRegexes(registered.patterns, parsed.text) = {1, 2}
    /\ re_search(registered.patterns[1], parsed.text).groups
          # re_search(registered.patterns[2], parsed.text).groups
    /\ parsed.result.params
          = Put(EmptyDict, registered.slots[1],
                Strip(re_search(registered.patterns[1], parsed.text).groups[1]))

(***************************************************************************)
(* Claims about the stages a pipe skips.                                   *)
(***************************************************************************)
\* a stage that was skipped: no intent, or no handler for its intent
Skipped(e) == e.kind \in {"not_understood", "unknown_action"}

\* the place of the result block of event k: every event but the start of a
\* handler appends one block
BlockPlace(k) == Cardinality({ j \in 1..k : events[j].kind # "start" })

\* the handler returns before event k
ReturnsBefore(k) == { j \in 1..(k - 1) : events[j].kind = "return" }

\* the output of the most recent stage that executed successfully before event k
LastOutputBefore(k) ==
    events[CHOOSE j \in ReturnsBefore(k) : \A x \in ReturnsBefore(k) : x <= j].out

\* C27: in a pipe chain a stage with no recognised intent or no registered
\* action does not halt the chain: it is recorded as an error block and
\* skipped, and the next executed stage receives as previous output the
\* output of the most recent stage that executed successfully
C27_SkippedStageKeepsOutput ==
    chain.chain_type = "pipe" =>
        \A k \in DOMAIN events :
            /\ Skipped(events[k]) =>
                /\ results[BlockPlace(k)] = BlockOf(events[k])
                /\ (pc = "done" /\ events[k].stage < Len(chain.commands))
                    => \E j \in DOMAIN events : j > k /\ events[j].stage = events[k].stage + 1
            /\ (/\ events[k].kind = "start"
                /\ k > 1
                /\ Skipped(events[k - 1])
                /\ ReturnsBefore(k) # {})
                => /\ "_previous_output" \in DOMAIN events[k].params
                   /\ events[k].params["_previous_output"] = LastOutputBefore(k)


(***************************************************************************)
(* learn_correction: the persistence write comes before the cache.         *)
(***************************************************************************)
\* the phrases of a list of learned patterns
PhrasesOf(patterns) == { patterns[i].phrase : i \in DOMAIN patterns }

\* every cached pattern of a user is one the store has had written
CachedArePersisted ==
    \A u \in DOMAIN learned_patterns_cache :
        PhrasesOf(learned_patterns_cache[u]) \subseteq PhrasesOf(store[u])

\* a parser without memory has the cache of its construction, and a parse
\* it made is the parse of that cache
NoMemoryNoLearned ==
    ~has_memory =>
        /\ learned_patterns_cache = EmptyDict
        /\ parsed.called =>
            parsed.result = parse(intents, EmptyDict, parsed.text, parsed.user_id)

\* a learn_correction or load_user_patterns call that ended before its
\* await went through: at the warning of a parser without memory
\* (parser.py:762-764, 736-737) or by the exception of the write (parser.py:767)
EndedBeforeCache ==
    /\ n_calls' = n_calls + 1
    /\ learning' = learning
    /\ loading' = loading

\* C28: learn_correction writes to the persistence collaborator before it
\* touches the cache: when the write raises, or the parser has no memory,
\* the learned-pattern cache is left as it was (and with it every later
\* parse, a function of the intents and the cache), and nothing is in the
\* cache that was not written to the store first
C28_FailedLearnLeavesCache ==
    /\ [](CachedArePersisted /\ NoMemoryNoLearned)
    /\ [][EndedBeforeCache =>
            /\ learned_patterns_cache' = learned_patterns_cache
            /\ intents' = intents
            /\ store' = store]_vars

\* the write of a correction raised in a parser with memory, and a parse was
\* made after it: the store and the cache are empty and "Menu " is help
C28_ParsedAfterFailedWrite ==
    /\ has_memory
    /\ n_calls > 0
    /\ learning = <<>>
    /\ loading = <<>>
    /\ \A u \in Users : store[u] = <<>>
    /\ learned_patterns_cache = EmptyDict
    /\ parsed.called
    /\ parsed.user_id = "alice"
    /\ parsed.text = <<"M","e","n","u",SP>>
    /\ parsed.result.intent = "help"


(***************************************************************************)
(* The chain executor and the parsed chain.                                *)
(***************************************************************************)
\* the params mappings of the commands of a chain
ParamsOf(c) == [i \in DOMAIN c.commands |-> c.commands[i].params]

\* the start of a handler that was given an injected key its command does
\* not have
InjectedStart(e) ==
    /\ e.kind = "start"
    /\ "_previous_output" \in DOMAIN e.params
    /\ "_previous_output" \notin DOMAIN chain.commands[e.stage].params
    /\ "target" \in DOMAIN e.params
    /\ "target" \notin DOMAIN chain.commands[e.stage].params

\* C29: chain execution leaves the parsed chain unchanged: once
\* _handle_chain has the chain, no step of the executor adds, removes or
\* changes a key of a command's params (the injection goes to a copy), so the
\* chain at the end is the chain that was parsed
C29_ExecutorKeepsChain ==
    [][pc # "idle" =>
        /\ chain' = chain
        /\ ParamsOf(chain') = ParamsOf(chain)]_vars

\* a pipe ran to its end and a handler was called with _previous_output and
\* target injected, neither of which is in the params of its command
C29_InjectedIntoCopy ==
    /\ pc = "done"
    /\ chain.chain_type = "pipe"
    /\ \E k \in DOMAIN events : InjectedStart(events[k])


(***************************************************************************)
(* The webhook server (triggers/webhook.py).                               *)
(***************************************************************************)
\* `secret: Optional[str] = None`
NoSecret == "<None>"
\* a header that the request does not have
NoHeader == <<"<None>">>

\* bool(secret) and bool(signature): None and the empty string are falsy
HasSecret(h) == h.secret # NoSecret /\ h.secret # ""
HasSignature(sig) == sig # NoHeader /\ sig # <<>>

\* hmac.new(secret, payload, sha256).hexdigest(): one token for each secret
\* and payload, two of them equal only for the same secret and payload
HexDigest(secret, payload) == ToString(<<"sha256", secret, payload>>)

\* signature.replace("sha256=", "").replace("sha1=", "")  (webhook.py:71)
RECURSIVE StripPrefixes(_)
StripPrefixes(sig) ==
    IF sig = <<>> THEN <<>>
    ELSE IF Head(sig) \in {"sha256=", "sha1="} THEN StripPrefixes(Tail(sig))
    ELSE << Head(sig) >> \o StripPrefixes(Tail(sig))

\* a handler that takes every signature
verify_signature_any(h, payload, signature) == TRUE

\* WebhookHandler.verify_signature with the default algorithm (webhook.py:54-73)
verify_signature(h, payload, signature) ==
    IF ~HasSecret(h) THEN TRUE
    ELSE << HexDigest(h.secret, payload) >> = StripPrefixes(signature)

\* `x_hub_signature_256 or x_gitlab_token or x_slack_signature` (webhook.py:144)
SignatureOf(headers) ==
    IF HasSignature(headers[1]) THEN headers[1]
    ELSE IF HasSignature(headers[2]) THEN headers[2]
    ELSE headers[3]

\* `json.loads(body) if body else {}`, the form data for a body that is not
\* JSON (webhook.py:154-158); the handlers have no transform
B_json == <<"{", "}">>
B_form == <<"x", "=", "1">>
PayloadOf(body) ==
    IF body = <<>> \/ body = B_json THEN EmptyDict
    ELSE Put(EmptyDict, "x", <<"1">>)

\* the names, secrets and requests of a run
W_gh == "gh"
W_zz == "zz"
RegisteredSecrets == { NoSecret, "", "s" }
Bodies == { B_form }
OtherBody(body) == IF body = B_json THEN B_form ELSE B_json

\* the three signature headers of a request with this body
HeadersFor(body) == {
    << NoHeader, NoHeader, NoHeader >>,
    << <<>>, NoHeader, NoHeader >>,
    << <<"sha256=", HexDigest("s", body)>>, NoHeader, NoHeader >>,
    << <<HexDigest("t", body)>>, NoHeader, NoHeader >>,
    << NoHeader, <<HexDigest("s", body)>>, NoHeader >>,
    << <<>>, NoHeader, <<"sha1=", HexDigest("s", body)>> >>,
    << <<"sha256=", HexDigest("s", OtherBody(body))>>, NoHeader, <<HexDigest("s", body)>> >> }

\* the requests received and not yet taken from the queue in a run
MaxRequests == 2

InitWebhook ==
    /\ pc = "webhook"
    /\ ChainIdle
    /\ EngineIdle
    /\ ParserIdle

\* WebhookServer.register (webhook.py:179-193)
Register(name, action, secret) ==
    /\ handlers' = Put(handlers, name, [name |-> name, action |-> action, secret |-> secret])
    /\ reply' = 0
    /\ UNCHANGED <<event_queue, receiving, pc, chainVars, parserVars, engineVars, catalogVars, shellVars>>

\* WebhookServer.unregister (webhook.py:195-201)
Unregister(name) ==
    /\ handlers' = [n \in DOMAIN handlers \ {name} |-> handlers[n]]
    /\ reply' = 0
    /\ UNCHANGED <<event_queue, receiving, pc, chainVars, parserVars, engineVars, catalogVars, shellVars>>

\* receive_webhook for a name that has no handler: 404 (webhook.py:135-136)
ReceiveUnknown(name, body, headers) ==
    /\ name \notin DOMAIN handlers
    /\ reply' = 404
    /\ UNCHANGED <<handlers, event_queue, receiving, pc, chainVars, parserVars, engineVars, catalogVars, shellVars>>

\* receive_webhook up to the await: the handler is looked up and the body
\* is awaited (webhook.py:135-141)
ReceiveCall(name, body, headers) ==
    /\ name \in DOMAIN handlers
    /\ Len(event_queue) + Len(receiving) < MaxRequests
    /\ receiving' = Append(receiving, [name |-> name, handler |-> handlers[name],
                                       body |-> body, headers |-> headers])
    /\ reply' = 0
    /\ UNCHANGED <<handlers, event_queue, pc, chainVars, parserVars, engineVars, catalogVars, shellVars>>

\* the verdict of lines 144-151: 401 for a handler with a secret and a
\* request without signature or with one that does not verify, else 202
StatusOf(r) ==
    IF HasSecret(r.handler)
    THEN IF ~HasSignature(SignatureOf(r.headers)) THEN 401
         ELSE IF ~verify_signature(r.handler, r.body, SignatureOf(r.headers)) THEN 401
         ELSE 202
    ELSE 202

\* WebhookEvent(name, payload, headers, source_ip, verified) (webhook.py:161-167);
\* `verified` is True on every path that reaches it
WebhookEvent(r) ==
    [name |-> r.name, payload |-> PayloadOf(r.body), headers |-> r.headers,
     source_ip |-> "unknown", verified |-> TRUE]

\* receive_webhook after the await: the signature is checked and the event
\* is queued, or the request is refused (webhook.py:143-177)
ReceiveResume(k) ==
    /\ k \in DOMAIN receiving
    /\ reply' = StatusOf(receiving[k])
    /\ event_queue' = IF StatusOf(receiving[k]) = 202
                      THEN Append(event_queue, WebhookEvent(receiving[k]))
                      ELSE event_queue
    /\ receiving' = Remove(receiving, k)
    /\ UNCHANGED <<handlers, pc, chainVars, parserVars, engineVars, catalogVars, shellVars>>

\* get_event: the oldest event is taken from the queue (webhook.py:217-227)
GetEvent ==
    /\ event_queue # <<>>
    /\ event_queue' = Tail(event_queue)
    /\ reply' = 0
    /\ UNCHANGED <<handlers, receiving, pc, chainVars, parserVars, engineVars, catalogVars, shellVars>>

NextWebhook ==
    \/ \E secret \in RegisteredSecrets : Register(W_gh, "notify", secret)
    \/ Unregister(W_gh)
    \/ \E name \in {W_gh, W_zz}, body \in Bodies : \E headers \in HeadersFor(body) :
        \/ ReceiveUnknown(name, body, headers)
        \/ ReceiveCall(name, body, headers)
    \/ \E k \in 1..MaxRequests : ReceiveResume(k)
    \/ GetEvent

SpecWebhook == InitWebhook /\ [][NextWebhook]_vars


\* the receive_webhook call that resumes in this step
ResumedRequest ==
    receiving[CHOOSE k \in DOMAIN receiving : receiving' = Remove(receiving, k)]

\* the request carried a signature, and it is the digest of its body under
\* the secret of the handler that was looked up for it
CarriedVerifiedSignature(r) ==
    /\ HasSignature(SignatureOf(r.headers))
    /\ StripPrefixes(SignatureOf(r.headers)) = << HexDigest(r.handler.secret, r.body) >>

\* every queued event of a name whose handler has a secret is verified
QueuedAreVerified ==
    \A i \in DOMAIN event_queue :
        (/\ event_queue[i].name \in DOMAIN handlers
         /\ HasSecret(handlers[event_queue[i].name]))
            => event_queue[i].verified = TRUE

\* a request is taken up only for a registered name, with the handler of
\* that name
TakenUpForRegistered ==
    Len(receiving') > Len(receiving) =>
        LET r == receiving'[Len(receiving')] IN
        /\ r.name \in DOMAIN handlers
        /\ r.handler = handlers[r.name]

\* an event is queued only by a request that is answered 202, and for a
\* handler with a secret only when the request carried a verified signature
QueuedOnlyVerified ==
    Len(event_queue') > Len(event_queue) =>
        /\ Len(receiving') < Len(receiving)
        /\ reply' = 202
        /\ event_queue'[Len(event_queue')].name = ResumedRequest.name
        /\ event_queue'[Len(event_queue')].verified = TRUE
        /\ SubSeq(event_queue', 1, Len(event_queue)) = event_queue
        /\ HasSecret(ResumedRequest.handler) => CarriedVerifiedSignature(ResumedRequest)

\* a request that is refused (404, 401) leaves the queue as it was
RefusedLeavesQueue ==
    (reply' \in {401, 404} /\ (reply' # reply \/ receiving' # receiving))
        => event_queue' = event_queue

\* C30: the webhook server queues an event only for a registered name and,
\* for a handler that has a secret, only when the request carried a
\* signature that verified; every queued event of a secret-protected handler
\* has verified = true, and a refused request (unknown name, missing or
\* invalid signature) leaves the queue unchanged
C30_QueueOnlyVerified ==
    /\ []QueuedAreVerified
    /\ [][TakenUpForRegistered /\ QueuedOnlyVerified /\ RefusedLeavesQueue]_vars

\* a request for a handler with the secret "s" was accepted by the signature
\* of its third header, the first being empty, and its event is in the queue
C30_SignedEventQueued ==
    /\ reply = 202
    /\ W_gh \in DOMAIN handlers
    /\ handlers[W_gh].secret = "s"
    /\ event_queue # <<>>
    /\ event_queue[1].name = W_gh
    /\ event_queue[1].headers = << <<>>, NoHeader, <<"sha1=", HexDigest("s", B_form)>> >>

====
